---- MODULE Spec2Model ----
(***************************************************************************)
(* State-machine model of the secure-chat SDK core:                        *)
(*   EncryptionService  (src/src/services/EncryptionService.ts)            *)
(*   WebRTCManager      (src/src/services/WebRTCManager.ts)                *)
(*   SecureChatProvider (src/src/providers/SecureChatProvider.tsx)         *)
(* Every node runs one provider, one manager and one encryption service.   *)
(* The platform primitives (RTCPeerConnection, RTCDataChannel, WebCrypto)  *)
(* are the environment; they are modelled at the places the code calls     *)
(* them.  An await on a platform promise is a suspension point: the rest   *)
(* of the handler is a task that resumes in a later step.                  *)
(***************************************************************************)
EXTENDS Integers, Sequences, FiniteSets, TLC

\* ------------------------------------------------------------------ bounds
MaxContent == 1    \* message contents are 0..MaxContent
MaxIv == 1         \* nonces are 0..MaxIv
MaxPc == 2         \* RTCPeerConnection objects a node creates
MaxDc == 2         \* RTCDataChannel objects a node holds
MaxTasks == 2      \* suspended continuations / timers of one node
MaxQueue == 2      \* candidates queued for one peer
MaxLog == 2        \* entries of the message log
MaxCount == 3      \* saturation of the event / frame counters
MaxCands == 3      \* distinct candidates the far end produces
MaxStreams == 3    \* microphone streams getUserMedia hands out
MaxCalls == 2      \* getUserMedia calls pending at one time

\* ------------------------------------------------------------------ values
Nodes == {"A", "B", "C"}
NodeCode(n) == CASE n = "A" -> 1 [] n = "B" -> 2 [] OTHER -> 3
FreshKey == 4      \* the key pair generateKey returns to a restarted node
PrivateKeys == {NodeCode(n) : n \in Nodes} \cup {FreshKey}
NoKey == {}
None == 0
NoQueue == [has |-> FALSE, q |-> <<>>]
ByteMod == 256
Cands == 1..MaxCands
\* A candidate the platform cannot parse.
MalformedCand == 0

Min(a, b) == IF a < b THEN a ELSE b

RECURSIVE Sum(_)
Sum(s) == IF s = <<>> THEN 0 ELSE Head(s) + Sum(Tail(s))

\* Array.from(bytes) -> JSON -> new Uint8Array(array): every element is
\* taken modulo 256.
ToUint8Array(a) == [i \in DOMAIN a |-> a[i] % ByteMod]

\* ------------------------------------------------- platform crypto (WebCrypto)
\* exportKey('raw', publicKey): an uncompressed point, tag byte 4 then the
\* coordinates; the model's coordinate is the number of the key pair.
ExportKey(priv) == <<4, priv>>

\* importKey('raw', bytes, ECDH P-256): rejects anything that is not a point.
ImportKeyOk(bytes) == Len(bytes) = 2 /\ bytes[1] = 4 /\ bytes[2] \in PrivateKeys
ImportKey(bytes) == bytes[2]

\* deriveKey(ECDH): the secret both key pairs agree on.
DeriveKey(priv, pub) == {priv, pub}

\* A number that identifies an AES key.
KeyCode(key) ==
    Sum([i \in 1..Cardinality(PrivateKeys) |-> IF i \in key THEN 2 ^ (i - 1) ELSE 0])

KeyStream(key, iv, i) == (KeyCode(key) + iv + i) % ByteMod

\* The authentication tag: two bytes bound to the key, the nonce and the text.
GcmTag(key, iv, pt) == <<KeyCode(key), (iv + Sum(pt)) % ByteMod>>

\* subtle.encrypt(AES-GCM): keystream-masked text followed by the tag.
AesGcmEncrypt(key, iv, pt) ==
    [i \in DOMAIN pt |-> (pt[i] + KeyStream(key, iv, i)) % ByteMod] \o GcmTag(key, iv, pt)

AesGcmBody(ct) == SubSeq(ct, 1, Len(ct) - 2)
AesGcmOpen(key, iv, ct) ==
    [i \in DOMAIN AesGcmBody(ct) |->
        (AesGcmBody(ct)[i] + ByteMod - KeyStream(key, iv, i)) % ByteMod]

\* subtle.decrypt(AES-GCM) succeeds only if the tag verifies.
AesGcmVerifies(key, iv, ct) ==
    /\ Len(ct) >= 2
    /\ SubSeq(ct, Len(ct) - 1, Len(ct)) = GcmTag(key, iv, AesGcmOpen(key, iv, ct))

\* --------------------------------------------------------- EncryptionService
\* sk is one service's sharedKeys map: peer id -> key or NoKey.
hasSharedKey(sk, peerId) == sk[peerId] # NoKey

removeSharedKey(sk, peerId) == [sk EXCEPT ![peerId] = NoKey]

\* rotateKey only removes; the next key exchange establishes a new key.
rotateKey(sk, peerId) == removeSharedKey(sk, peerId)

getPublicKey(kp) == ExportKey(kp)

encryptNoCheck(sk, plaintext, iv, peerId) ==
    [ok |-> TRUE, err |-> "", ciphertext |-> AesGcmEncrypt(sk[peerId], iv, plaintext), iv |-> iv]

encrypt(sk, plaintext, iv, peerId) ==
    IF sk[peerId] = NoKey
    THEN [ok |-> FALSE, err |-> "NoKeyError", ciphertext |-> <<>>, iv |-> iv]
    ELSE [ok |-> TRUE, err |-> "",
          ciphertext |-> AesGcmEncrypt(sk[peerId], iv, plaintext), iv |-> iv]

decryptNoVerify(sk, ciphertext, iv, peerId) ==
    IF sk[peerId] = NoKey
    THEN [ok |-> FALSE, err |-> "NoKeyError", plaintext |-> <<>>]
    ELSE [ok |-> TRUE, err |-> "", plaintext |-> AesGcmOpen(sk[peerId], iv, ciphertext)]

decryptWrongNonce(sk, ciphertext, iv, peerId) ==
    IF sk[peerId] = NoKey
    THEN [ok |-> FALSE, err |-> "NoKeyError", plaintext |-> <<>>]
    ELSE IF ~AesGcmVerifies(sk[peerId], iv, ciphertext)
    THEN [ok |-> FALSE, err |-> "DecryptionError", plaintext |-> <<>>]
    ELSE [ok |-> TRUE, err |-> "", plaintext |-> AesGcmOpen(sk[peerId], 0, ciphertext)]

decrypt(sk, ciphertext, iv, peerId) ==
    IF sk[peerId] = NoKey
    THEN [ok |-> FALSE, err |-> "NoKeyError", plaintext |-> <<>>]
    ELSE IF ~AesGcmVerifies(sk[peerId], iv, ciphertext)
    THEN [ok |-> FALSE, err |-> "DecryptionError", plaintext |-> <<>>]
    ELSE [ok |-> TRUE, err |-> "", plaintext |-> AesGcmOpen(sk[peerId], iv, ciphertext)]

\* JSON.stringify({content, timestamp, sender}) through TextEncoder: the
\* content followed by the sender (the timestamp is not modelled).
EncodeMessageData(content, sender) == <<content, NodeCode(sender)>>
\* JSON.parse(TextDecoder.decode(bytes)): throws on anything else.
ParseOk(bytes) == Len(bytes) = 2
ParsedContent(bytes) == bytes[1]

\* ------------------------------------------------------------------- state
VARIABLES
    live,                 \* the nodes that run (the others are the environment)
    keyPair,              \* EncryptionService.keyPair (number of the pair)
    sharedKeys,           \* EncryptionService.sharedKeys
    signalingSocket,      \* WebRTCManager.signalingSocket: readyState or "null"
    peerConnections,      \* WebRTCManager.peerConnections: peer -> handle
    dataChannels,         \* WebRTCManager.dataChannels: peer -> channel
    pendingIceCandidates, \* WebRTCManager.pendingIceCandidates: peer -> queue
    connectionStates,     \* WebRTCManager.connectionStates: peer -> state
    pcs,                  \* the RTCPeerConnection objects a node has created
    dcs,                  \* the RTCDataChannel objects a node holds
    tasks,                \* suspended continuations and armed timers of a node
    relay,                \* envelopes the relay still has to deliver to a node
    peers,                \* provider: peer directory
    selectedPeer,         \* provider: the Peer object passed to selectPeer
    handlerSelectedPeer,  \* provider: the selectedPeer the manager's callbacks closed over
    messages,             \* provider: message log
    isTyping,             \* provider: typing state
    connectionStatus,     \* provider: relay connection status
    counts,               \* per node: events emitted and frames sent so far
    box,                  \* the last encrypt call and the last decrypt of its output
    out,                  \* what the last step did: call, result, emissions
    audio                 \* the AudioManager of the provider and its platform objects

vars == <<live, keyPair, sharedKeys, signalingSocket, peerConnections, dataChannels,
          pendingIceCandidates, connectionStates, pcs, dcs, tasks, relay, peers,
          selectedPeer, handlerSelectedPeer, messages, isTyping, connectionStatus, counts,
          box, out, audio>>

NoPeer == [present |-> FALSE, online |-> FALSE, connectionState |-> "disconnected",
           encryptionEstablished |-> FALSE]
NoSelection == [id |-> "", online |-> FALSE, connectionState |-> "disconnected",
                encryptionEstablished |-> FALSE]
NoOut == [op |-> "", n |-> "", p |-> "", res |-> "", events |-> <<>>, frames |-> <<>>,
          signals |-> <<>>]
NoCounts == [established |-> 0, disconnected |-> 0, kxSent |-> 0, kxReplies |-> 0,
             recvFirst |-> FALSE]
NoBox == [by |-> "", for |-> "", m |-> <<>>, iv |-> 0, key |-> NoKey, ok |-> FALSE,
          ciphertext |-> <<>>, reader |-> "", from |-> "", opened |-> FALSE,
          err |-> "", plaintext |-> <<>>]

\* The AudioManager: localAudioStream and animationFrame are 0 for null,
\* streams are the microphone streams handed out (TRUE while their tracks
\* run), loops the analysis loops with a frame requested, pending the calls
\* waiting for getUserMedia; cleaned, op, res and events are bookkeeping.
NoAudio == [localAudioStream |-> 0, remoteAudioStream |-> FALSE, audioContext |-> FALSE,
            localAnalyser |-> FALSE, remoteAnalyser |-> FALSE, animationFrame |-> 0,
            streams |-> <<>>, loops |-> {}, started |-> 0, pending |-> {},
            cleaned |-> FALSE, op |-> "", res |-> "", events |-> <<>>]

\* The state of node n as one record: handlers are functions on it.
St(n) ==
    [n |-> n, kp |-> keyPair[n], keys |-> sharedKeys[n], sock |-> signalingSocket[n],
     pcm |-> peerConnections[n], dcm |-> dataChannels[n],
     pend |-> pendingIceCandidates[n], cst |-> connectionStates[n],
     pcs |-> pcs[n], dcs |-> dcs[n], tasks |-> tasks[n],
     dir |-> peers[n], sel |-> selectedPeer[n], hsel |-> handlerSelectedPeer[n],
     log |-> messages[n],
     typing |-> isTyping[n], status |-> connectionStatus[n], cnt |-> counts[n],
     events |-> <<>>, frames |-> <<>>, signals |-> <<>>]

InitNode(n) ==
    [n |-> n, kp |-> NodeCode(n), keys |-> [p \in Nodes |-> NoKey], sock |-> "null",
     pcm |-> [p \in Nodes |-> None], dcm |-> [p \in Nodes |-> None],
     pend |-> [p \in Nodes |-> NoQueue], cst |-> [p \in Nodes |-> "none"],
     pcs |-> <<>>, dcs |-> <<>>, tasks |-> {},
     dir |-> [p \in Nodes |-> NoPeer], sel |-> NoSelection, hsel |-> "", log |-> <<>>,
     typing |-> FALSE, status |-> "disconnected", cnt |-> NoCounts,
     events |-> <<>>, frames |-> <<>>, signals |-> <<>>]

InitWith(liveNodes) ==
    /\ live = liveNodes
    /\ keyPair = [n \in Nodes |-> InitNode(n).kp]
    /\ sharedKeys = [n \in Nodes |-> InitNode(n).keys]
    /\ signalingSocket = [n \in Nodes |-> InitNode(n).sock]
    /\ peerConnections = [n \in Nodes |-> InitNode(n).pcm]
    /\ dataChannels = [n \in Nodes |-> InitNode(n).dcm]
    /\ pendingIceCandidates = [n \in Nodes |-> InitNode(n).pend]
    /\ connectionStates = [n \in Nodes |-> InitNode(n).cst]
    /\ pcs = [n \in Nodes |-> <<>>]
    /\ dcs = [n \in Nodes |-> <<>>]
    /\ tasks = [n \in Nodes |-> {}]
    /\ relay = [n \in Nodes |-> <<>>]
    /\ peers = [n \in Nodes |-> InitNode(n).dir]
    /\ selectedPeer = [n \in Nodes |-> NoSelection]
    /\ handlerSelectedPeer = [n \in Nodes |-> InitNode(n).hsel]
    /\ messages = [n \in Nodes |-> <<>>]
    /\ isTyping = [n \in Nodes |-> FALSE]
    /\ connectionStatus = [n \in Nodes |-> "disconnected"]
    /\ counts = [n \in Nodes |-> NoCounts]
    /\ box = NoBox
    /\ out = NoOut
    /\ audio = NoAudio

\* ------------------------------------------------------- frames and envelopes
KeyExchangeFrame(pub, isResponse) ==
    [type |-> "key_exchange", publicKey |-> pub, isResponse |-> isResponse,
     ciphertext |-> <<>>, iv |-> 0, typing |-> FALSE]
EncryptedMessageFrame(ciphertext, iv) ==
    [type |-> "encrypted_message", publicKey |-> <<>>, isResponse |-> FALSE,
     ciphertext |-> ciphertext, iv |-> iv, typing |-> FALSE]
TypingFrame(typing) ==
    [type |-> "typing_indicator", publicKey |-> <<>>, isResponse |-> FALSE,
     ciphertext |-> <<>>, iv |-> 0, typing |-> typing]

\* A negotiation description names the handle that made it; a candidate
\* envelope carries the candidate.
Envelope(type, sender, pc, cand) == [type |-> type, senderId |-> sender, pc |-> pc, cand |-> cand]

\* The counters are bookkeeping of the runs in which both ends are modelled.
Bump(c) == IF Cardinality(live) > 1 THEN Min(c + 1, MaxCount) ELSE c

\* dataChannel.send(JSON.stringify(frame)) on channel d of state S.
DcSend(S, d, frame) ==
    [S EXCEPT !.frames = Append(@, [dc |-> d, msg |-> frame]),
              !.cnt.kxSent = IF frame.type = "key_exchange" THEN Bump(@) ELSE @,
              !.cnt.kxReplies = IF frame.type = "key_exchange" /\ frame.isResponse
                                THEN Bump(@) ELSE @]

sendToSignalingServer(S, type, targetPeer, pc, cand) ==
    IF S.sock = "open"
    THEN [S EXCEPT !.signals = Append(@, [to |-> targetPeer, env |-> Envelope(type, S.n, pc, cand)])]
    ELSE S

\* The far end of channel d of node n: the channel the answerer was handed
\* for it, or the offerer's channel that one was made for.
FarDc(n, d) ==
    LET m == dcs[n][d].peer
        made == {e \in DOMAIN dcs[m] : dcs[m][e].peer = n /\ dcs[m][e].link = d}
    IN  IF dcs[n][d].link # None THEN dcs[n][d].link
        ELSE IF made # {} THEN CHOOSE e \in made : TRUE
        ELSE None

\* The frames of a step of node n that reach channel e of node m.
RECURSIVE Arriving(_, _, _, _)
Arriving(frames, n, m, e) ==
    IF frames = <<>> THEN <<>>
    ELSE IF dcs[n][Head(frames).dc].peer = m /\ FarDc(n, Head(frames).dc) = e
         THEN <<Head(frames).msg>> \o Arriving(Tail(frames), n, m, e)
         ELSE Arriving(Tail(frames), n, m, e)

RECURSIVE Routed(_, _)
Routed(signals, m) ==
    IF signals = <<>> THEN <<>>
    ELSE IF Head(signals).to = m
         THEN <<Head(signals).env>> \o Routed(Tail(signals), m)
         ELSE Routed(Tail(signals), m)

\* The calls whose name and result the last-step record keeps.
Observed == {"handlePeerDisconnected", "disconnect", "selectPeer", "connectToPeer",
             "connectToPeer.resume", "handleOffer.resume", "handleAnswer.resume",
             "flush.resume", "handleIceCandidate", "onclose.socket", "oniceconnectionstatechange", "iceGraceTimer", "sendMessage", "sendMessage.resume", "onmessage",
             "discovery_ping", "discovery_pong",
             "handleEncryptedMessage.resume", "handleKeyExchange.derived",
             "establishSharedKey",
             "establishSharedKey.derived", "encrypt", "decrypt"}

\* A step of node n that ends in state S: the node's fields are written back,
\* the frames it sent are in flight to the far end of their channel and its
\* envelopes are with the relay.  rl is the relay after the step's own receive.
Commit(n, S, rl, op, p, res) ==
    /\ keyPair' = [keyPair EXCEPT ![n] = S.kp]
    /\ sharedKeys' = [sharedKeys EXCEPT ![n] = S.keys]
    /\ signalingSocket' = [signalingSocket EXCEPT ![n] = S.sock]
    /\ peerConnections' = [peerConnections EXCEPT ![n] = S.pcm]
    /\ dataChannels' = [dataChannels EXCEPT ![n] = S.dcm]
    /\ pendingIceCandidates' = [pendingIceCandidates EXCEPT ![n] = S.pend]
    /\ connectionStates' = [connectionStates EXCEPT ![n] = S.cst]
    /\ pcs' = [pcs EXCEPT ![n] = S.pcs]
    /\ dcs' = [m \in Nodes |->
                IF m = n \/ m \notin live THEN IF m = n THEN S.dcs ELSE dcs[m]
                ELSE [e \in DOMAIN dcs[m] |->
                        IF dcs[m][e].state = "closed" THEN dcs[m][e]
                        ELSE [dcs[m][e] EXCEPT !.inbox = @ \o Arriving(S.frames, n, m, e)]]]
    /\ tasks' = [tasks EXCEPT ![n] = S.tasks]
    /\ relay' = [m \in Nodes |->
                  IF m \in live /\ m # n THEN rl[m] \o Routed(S.signals, m) ELSE rl[m]]
    /\ peers' = [peers EXCEPT ![n] = S.dir]
    /\ selectedPeer' = [selectedPeer EXCEPT ![n] = S.sel]
    /\ handlerSelectedPeer' = [handlerSelectedPeer EXCEPT ![n] = S.hsel]
    /\ messages' = [messages EXCEPT ![n] = S.log]
    /\ isTyping' = [isTyping EXCEPT ![n] = S.typing]
    /\ connectionStatus' = [connectionStatus EXCEPT ![n] = S.status]
    /\ counts' = [counts EXCEPT ![n] = S.cnt]
    /\ out' = [op |-> IF op \in Observed THEN op ELSE "", n |-> n,
               p |-> IF op \in Observed THEN p ELSE "",
               res |-> IF op \in Observed THEN res ELSE "", events |-> S.events,
               frames |-> S.frames, signals |-> S.signals]
    /\ UNCHANGED <<live, audio>>

\* ------------------------------------------------- provider event callbacks
\* SecureChatProvider's callbacks run inside the manager call that emits.
Event(name, peerId) == [name |-> name, peer |-> peerId, content |-> 0]

onPeerDiscovered(S, peerId) ==
    [S EXCEPT !.dir[peerId] = IF @.present THEN [@ EXCEPT !.online = TRUE]
                              ELSE [present |-> TRUE, online |-> TRUE,
                                    connectionState |-> "disconnected",
                                    encryptionEstablished |-> FALSE],
              !.events = Append(@, Event("peer-discovered", peerId))]

onPeerDisconnected(S, peerId) ==
    [S EXCEPT !.dir[peerId] = IF @.present
                              THEN [@ EXCEPT !.online = FALSE,
                                             !.connectionState = "disconnected",
                                             !.encryptionEstablished = FALSE]
                              ELSE @,
              !.cnt.disconnected = Bump(@),
              !.events = Append(@, Event("peer-disconnected", peerId))]

onEncryptionEstablished(S, peerId) ==
    [S EXCEPT !.dir[peerId] = IF @.present THEN [@ EXCEPT !.encryptionEstablished = TRUE]
                              ELSE @,
              !.cnt.established = Bump(@),
              !.events = Append(@, Event("encryption-established", peerId))]

onPeerConnectionStateChanged(S, peerId, state) ==
    [S EXCEPT !.dir[peerId] = IF @.present THEN [@ EXCEPT !.connectionState = state] ELSE @,
              !.events = Append(@, Event("connection-state", peerId))]

onMessageReceived(S, sender, content) ==
    [S EXCEPT !.log = Append(@, [content |-> content, sender |-> sender,
                                 encrypted |-> TRUE, isOwn |-> FALSE]),
              !.events = Append(@, [name |-> "message", peer |-> sender, content |-> content])]

onConnectionStatusChanged(S, status) ==
    [S EXCEPT !.status = status]

\* The callback reads the selectedPeer of the render in which the effect that
\* created the manager ran, not the current one.
onTypingIndicator(S, peerId, typing) ==
    IF S.hsel # "" /\ S.hsel = peerId THEN [S EXCEPT !.typing = typing] ELSE S

\* ------------------------------------------------------ platform objects
\* An RTCPeerConnection: peer is the id its callbacks close over, remote is
\* whether remoteDescription is set, link the far handle its remote
\* description came from, applied the candidates handed to addIceCandidate,
\* conn and ice its connectionState and iceConnectionState, restarted whether
\* restartIce() was called on it.
NewPc(peerId, role) ==
    [peer |-> peerId, role |-> role, closed |-> FALSE, remote |-> FALSE, link |-> None,
     sig |-> "stable", conn |-> "new", ice |-> "new", restarted |-> FALSE,
     applied |-> <<>>, early |-> <<>>]

\* An RTCDataChannel: inbox holds the frames in flight to it, closeEvt says
\* that a close event is still to be dispatched.
NewDc(peerId, pc, link) ==
    [peer |-> peerId, pc |-> pc, state |-> "connecting", link |-> link,
     inbox |-> <<>>, closeEvt |-> FALSE]

\* RTCPeerConnection.close(): the handle and its channels are closed at once;
\* whether the channels still dispatch a close event is up to the platform.
\* Nothing reads a closed handle's other fields, so they are reset.
ClosePc(S, pc) ==
    [S EXCEPT !.pcs[pc] = [NewPc(@.peer, @.role) EXCEPT !.closed = TRUE, !.conn = "closed",
                                                        !.ice = "closed",
                                                        !.restarted = S.pcs[pc].restarted],
              !.dcs = [d \in DOMAIN S.dcs |->
                        IF S.dcs[d].pc = pc /\ S.dcs[d].state # "closed"
                        THEN [S.dcs[d] EXCEPT !.state = "closed", !.closeEvt = TRUE,
                                              !.inbox = <<>>]
                        ELSE S.dcs[d]]]

\* ------------------------------------------------------------------ tasks
Task(kind, peerId, pc, dc) ==
    [id |-> 0, kind |-> kind, peer |-> peerId, pc |-> pc, dc |-> dc, bytes |-> <<>>,
     key |-> NoKey, flag |-> FALSE, cands |-> <<>>, idx |-> 0, arr |-> FALSE, then |-> "",
     stale |-> FALSE]

FreeIds(S) == (1..MaxTasks) \ {t.id : t \in S.tasks}
CanSuspend(S) == FreeIds(S) # {}
FirstFree(S) == CHOOSE i \in FreeIds(S) : \A j \in FreeIds(S) : i <= j

Suspend(S, t) == [S EXCEPT !.tasks = @ \cup {[t EXCEPT !.id = FirstFree(S)]}]
Resume(S, t) == [S EXCEPT !.tasks = @ \ {t}]

\* ---------------------------------------------------------------- teardown
\* Teardown marks the peer's suspended continuations (bookkeeping only: the
\* code keeps no such mark) and detaches the queue array they iterate.
MarkStale(ts, peerId) ==
    {IF t.peer = peerId THEN [t EXCEPT !.stale = TRUE, !.arr = FALSE] ELSE t : t \in ts}

handlePeerDisconnectedKeepChannel(S, peerId) ==
    LET pc == S.pcm[peerId]
        S1 == IF pc # None THEN [ClosePc(S, pc) EXCEPT !.pcm[peerId] = None] ELSE S
        S2 == [S1 EXCEPT !.pend[peerId] = NoQueue,
                         !.cst[peerId] = "none",
                         !.keys = removeSharedKey(@, peerId),
                         !.tasks = MarkStale(@, peerId)]
    IN  onPeerDisconnected(S2, peerId)

handlePeerDisconnected(S, peerId) ==
    LET pc == S.pcm[peerId]
        S1 == IF pc # None THEN [ClosePc(S, pc) EXCEPT !.pcm[peerId] = None] ELSE S
        S2 == [S1 EXCEPT !.dcm[peerId] = None,
                         !.pend[peerId] = NoQueue,
                         !.cst[peerId] = "none",
                         !.keys = removeSharedKey(@, peerId),
                         !.tasks = MarkStale(@, peerId)]
    IN  onPeerDisconnected(S2, peerId)

disconnectFromPeer(S, peerId) == handlePeerDisconnected(S, peerId)

\* WebRTCManager.disconnect(): closes every handle and clears the four maps.
\* The socket field is null again; the model writes "closed" for a null that
\* follows a connection, because the provider never reconnects a manager it
\* has disconnected.
RECURSIVE CloseAll(_, _)
CloseAll(S, ps) ==
    IF ps = {} THEN S
    ELSE LET p == CHOOSE x \in ps : TRUE
         IN  CloseAll(IF S.pcm[p] # None THEN ClosePc(S, S.pcm[p]) ELSE S, ps \ {p})

disconnect(S) ==
    [CloseAll(S, Nodes) EXCEPT !.pcm = [p \in Nodes |-> None],
                                !.dcm = [p \in Nodes |-> None],
                                !.pend = [p \in Nodes |-> NoQueue],
                                !.cst = [p \in Nodes |-> "none"],
                                !.tasks = {[t EXCEPT !.arr = FALSE] : t \in S.tasks},
                                !.sock = IF S.sock = "null" THEN "null" ELSE "closed"]

\* ------------------------------------------------------------ negotiation
CanCreatePc(S) == Len(S.pcs) < MaxPc
CanCreateDc(S) == Len(S.dcs) < MaxDc

\* setupDataChannel: the channel replaces whatever the map held for the peer.
setupDataChannel(S, d, peerId) == [S EXCEPT !.dcm[peerId] = d]

\* createPeerConnection + peerConnections.set (lines 161-162, 422-423).
CreateAndStorePc(S, peerId, role) ==
    [S EXCEPT !.pcs = Append(@, NewPc(peerId, role)), !.pcm[peerId] = Len(S.pcs) + 1]

\* connectToPeer up to its await on createOffer.
connectToPeerStartFresh(S, peerId) ==
    IF S.pcm[peerId] # None /\ S.pcs[S.pcm[peerId]].conn = "connected"
    THEN S
    ELSE LET S0 == [S EXCEPT !.pcm = [q \in Nodes |-> None], !.dcm = [q \in Nodes |-> None]]
             S1 == CreateAndStorePc(S0, peerId, "offerer")
             pc == S1.pcm[peerId]
             d  == Len(S1.dcs) + 1
             S2 == [S1 EXCEPT !.dcs = Append(@, NewDc(peerId, pc, None))]
         IN  Suspend(setupDataChannel(S2, d, peerId),
                     Task("connectToPeer", peerId, pc, d))

connectToPeerStart(S, peerId) ==
    IF S.pcm[peerId] # None /\ S.pcs[S.pcm[peerId]].conn = "connected"
    THEN S
    ELSE LET S1 == CreateAndStorePc(S, peerId, "offerer")
             pc == S1.pcm[peerId]
             d  == Len(S1.dcs) + 1
             S2 == [S1 EXCEPT !.dcs = Append(@, NewDc(peerId, pc, None))]
         IN  Suspend(setupDataChannel(S2, d, peerId),
                     Task("connectToPeer", peerId, pc, d))

\* connectToPeer after createOffer and setLocalDescription: both reject on a
\* closed handle, and the catch tears the peer down.
connectToPeerResume(S, t) ==
    IF S.pcs[t.pc].closed
    THEN handlePeerDisconnected(Resume(S, t), t.peer)
    ELSE sendToSignalingServer(
             [Resume(S, t) EXCEPT !.pcs[t.pc].sig = "have-local-offer"],
             "offer", t.peer, t.pc, 0)

\* pc.addIceCandidate(candidate) rejects on a closed handle and on a candidate
\* it cannot parse.
AddIceCandidateRejects(S, pc, cand) == S.pcs[pc].closed \/ cand \notin Cands

AddIceCandidate(S, pc, cand) ==
    IF AddIceCandidateRejects(S, pc, cand) THEN S
    ELSE [S EXCEPT !.pcs[pc].applied = Append(@, cand)]

\* What follows processPendingIceCandidates in its caller.
AfterFlush(S, then, peerId, pc) ==
    IF then = "handleOffer.answer"
    THEN Suspend(S, Task("handleOffer.answer", peerId, pc, None))
    ELSE S

\* processPendingIceCandidates up to its first await: the loop iterates the
\* array stored in the map, so the task follows that array while it is stored.
processPendingIceCandidates(S, peerId, pc, then) ==
    LET q == S.pend[peerId]
    IN  IF q.has /\ Len(q.q) > 0
        THEN Suspend(AddIceCandidate(S, pc, q.q[1]),
                     [Task("flush", peerId, pc, None) EXCEPT
                         !.cands = q.q, !.idx = 1, !.arr = TRUE, !.then = then])
        ELSE AfterFlush(S, then, peerId, pc)

\* The loop after one awaited addIceCandidate: the next candidate, or the
\* delete of the peer's queue entry and the return to the caller.
flushResume(S, t) ==
    LET S0 == Resume(S, t)
    IN  IF t.idx < Len(t.cands)
        THEN [AddIceCandidate(S0, t.pc, t.cands[t.idx + 1]) EXCEPT
                 !.tasks = @ \cup {[t EXCEPT !.idx = t.idx + 1]}]
        ELSE AfterFlush([S0 EXCEPT !.pend[t.peer] = NoQueue,
                                   !.tasks = {IF u.peer = t.peer THEN [u EXCEPT !.arr = FALSE]
                                              ELSE u : u \in S0.tasks}],
                        t.then, t.peer, t.pc)

\* handleOffer up to its await on setRemoteDescription.
handleOfferStart(S, senderId, offerPc) ==
    LET S1 == CreateAndStorePc(S, senderId, "answerer")
    IN  Suspend(S1, [Task("handleOffer.setRemote", senderId, S1.pcm[senderId], None)
                        EXCEPT !.idx = offerPc])

\* handleOffer after setRemoteDescription(offer).
handleOfferSetRemoteResume(S, t) ==
    IF S.pcs[t.pc].closed
    THEN handlePeerDisconnected(Resume(S, t), t.peer)
    ELSE processPendingIceCandidates(
             [Resume(S, t) EXCEPT !.pcs[t.pc].remote = TRUE, !.pcs[t.pc].link = t.idx,
                                  !.pcs[t.pc].sig = "have-remote-offer"],
             t.peer, t.pc, "handleOffer.answer")

\* handleOffer after createAnswer and setLocalDescription(answer).
handleOfferAnswerResume(S, t) ==
    IF S.pcs[t.pc].closed
    THEN handlePeerDisconnected(Resume(S, t), t.peer)
    ELSE sendToSignalingServer([Resume(S, t) EXCEPT !.pcs[t.pc].sig = "stable"],
                               "answer", t.peer, t.pc, 0)

\* handleAnswer up to its await on setRemoteDescription.
handleAnswerStart(S, senderId, answerPc) ==
    LET pc == S.pcm[senderId]
    IN  IF pc # None /\ S.pcs[pc].sig = "have-local-offer"
        THEN Suspend(S, [Task("handleAnswer.setRemote", senderId, pc, None)
                            EXCEPT !.idx = answerPc])
        ELSE S

\* handleAnswer after setRemoteDescription(answer): the platform rejects an
\* answer on a closed handle or outside have-local-offer.
handleAnswerResume(S, t) ==
    IF S.pcs[t.pc].closed \/ S.pcs[t.pc].sig # "have-local-offer"
    THEN handlePeerDisconnected(Resume(S, t), t.peer)
    ELSE processPendingIceCandidates(
             [Resume(S, t) EXCEPT !.pcs[t.pc].remote = TRUE, !.pcs[t.pc].link = t.idx,
                                  !.pcs[t.pc].sig = "stable"],
             t.peer, t.pc, "")

\* The platform call continuation t awaits on rejects: createOffer,
\* createAnswer, setLocalDescription and setRemoteDescription on a closed
\* handle, setRemoteDescription(answer) outside have-local-offer.
NegotiationRejects(S, t) ==
    \/ /\ t.kind \in {"connectToPeer", "handleOffer.setRemote", "handleOffer.answer",
                       "handleAnswer.setRemote"}
       /\ S.pcs[t.pc].closed
    \/ t.kind = "handleAnswer.setRemote" /\ S.pcs[t.pc].sig # "have-local-offer"

\* handleIceCandidate: applied at once, queued, or dropped without a handle.
\* early records, per handle, the candidates that arrived for it before its
\* remote description (bookkeeping for the ordering claims).
handleIceCandidate(S, senderId, cand) ==
    LET pc == S.pcm[senderId]
    IN  IF pc = None THEN S
        ELSE IF S.pcs[pc].remote THEN AddIceCandidate(S, pc, cand)
        ELSE [S EXCEPT !.pend[senderId] = [has |-> TRUE, q |-> Append(@.q, cand)],
                       !.pcs[pc].early = Append(@, cand),
                       !.tasks = {IF u.kind = "flush" /\ u.peer = senderId /\ u.arr
                                  THEN [u EXCEPT !.cands = Append(@, cand)]
                                  ELSE u : u \in S.tasks}]

\* ------------------------------------------------------------ key exchange
IsOpen(S, d) == d # None /\ S.dcs[d].state = "open"

\* performKeyExchange (the 1500 ms timer of onopen fired) up to its await on
\* getPublicKey.
performKeyExchange(S, peerId) ==
    LET d == S.dcm[peerId]
    IN  IF ~IsOpen(S, d) THEN S
        ELSE IF hasSharedKey(S.keys, peerId) THEN onEncryptionEstablished(S, peerId)
        ELSE Suspend(S, Task("performKeyExchange.send", peerId, None, d))

\* performKeyExchange after getPublicKey: send on the channel read before the
\* await; send throws on a channel that is no longer open.
performKeyExchangeResume(S, t) ==
    IF ~IsOpen(S, t.dc) THEN Resume(S, t)
    ELSE DcSend(Resume(S, t), t.dc, KeyExchangeFrame(getPublicKey(S.kp), FALSE))

\* establishSharedKey up to its await on importKey: nothing to do for a peer
\* that has a key.  importKey and deriveKey read nothing of the service but
\* the constant key pair, so the two awaits are one suspension.
establishSharedKeyAlways(S, peerId, peerPublicKey, kind, isResponse) ==
    Suspend(S, [Task(kind, peerId, None, None) EXCEPT
                   !.bytes = peerPublicKey, !.flag = isResponse])

establishSharedKey(S, peerId, peerPublicKey, kind, isResponse) ==
    IF hasSharedKey(S.keys, peerId) THEN S
    ELSE Suspend(S, [Task(kind, peerId, None, None) EXCEPT
                       !.bytes = peerPublicKey, !.flag = isResponse])

\* establishSharedKey after deriveKey: sharedKeys.set, or the import error.
establishSharedKeyDerived(S, t) ==
    IF ~ImportKeyOk(t.bytes) THEN Resume(S, t)
    ELSE [Resume(S, t) EXCEPT !.keys[t.peer] = DeriveKey(S.kp, ImportKey(t.bytes))]

\* handleKeyExchange up to the await inside establishSharedKey.
handleKeyExchangeSilent(S, peerId, msg) ==
    IF hasSharedKey(S.keys, peerId) THEN S
    ELSE establishSharedKey(S, peerId, ToUint8Array(msg.publicKey),
                            "handleKeyExchange.derive", msg.isResponse)

handleKeyExchange(S, peerId, msg) ==
    IF hasSharedKey(S.keys, peerId) THEN onEncryptionEstablished(S, peerId)
    ELSE establishSharedKey(S, peerId, ToUint8Array(msg.publicKey),
                            "handleKeyExchange.derive", msg.isResponse)

\* handleKeyExchange after establishSharedKey: the catch after a failed
\* import, else the reply (await getPublicKey) or the event.
handleKeyExchangeDerivedNoCatch(S, t) ==
    IF ~ImportKeyOk(t.bytes) THEN handlePeerDisconnected(Resume(S, t), t.peer)
    ELSE LET S1 == establishSharedKeyDerived(S, t)
             d  == S1.dcm[t.peer]
         IN  IF IsOpen(S1, d) /\ ~t.flag
             THEN Suspend(S1, Task("handleKeyExchange.reply", t.peer, None, d))
             ELSE onEncryptionEstablished(S1, t.peer)

handleKeyExchangeReplyAlways(S, t) ==
    IF ~ImportKeyOk(t.bytes) THEN Resume(S, t)
    ELSE LET S1 == establishSharedKeyDerived(S, t)
             d  == S1.dcm[t.peer]
         IN  IF IsOpen(S1, d)
             THEN Suspend(S1, Task("handleKeyExchange.reply", t.peer, None, d))
             ELSE onEncryptionEstablished(S1, t.peer)

handleKeyExchangeDerived(S, t) ==
    IF ~ImportKeyOk(t.bytes) THEN Resume(S, t)
    ELSE LET S1 == establishSharedKeyDerived(S, t)
             d  == S1.dcm[t.peer]
         IN  IF IsOpen(S1, d) /\ ~t.flag
             THEN Suspend(S1, Task("handleKeyExchange.reply", t.peer, None, d))
             ELSE onEncryptionEstablished(S1, t.peer)

\* handleKeyExchange after getPublicKey: the reply, then the event.
handleKeyExchangeReply(S, t) ==
    IF ~IsOpen(S, t.dc) THEN Resume(S, t)
    ELSE onEncryptionEstablished(
             DcSend(Resume(S, t), t.dc, KeyExchangeFrame(getPublicKey(S.kp), TRUE)),
             t.peer)

\* ---------------------------------------------------------------- messages
\* handleEncryptedMessage up to the await inside decrypt: without a key decrypt
\* throws at once and the catch logs; otherwise decrypt has read the key and
\* waits for the platform with the key, the bytes and the nonce.
handleEncryptedMessage(S, peerId, msg) ==
    IF ~hasSharedKey(S.keys, peerId) THEN S
    ELSE Suspend(S, [Task("handleEncryptedMessage", peerId, None, None) EXCEPT
                       !.bytes = ToUint8Array(msg.ciphertext), !.idx = msg.iv,
                       !.key = S.keys[peerId]])

\* What the decrypt call of a suspended handleEncryptedMessage resolves to.
Decrypted(t) == decrypt([p \in Nodes |-> IF p = t.peer THEN t.key ELSE NoKey],
                        t.bytes, t.idx, t.peer)

\* handleEncryptedMessage after decrypt: a failure is logged, a text that does
\* not parse too, anything else is delivered.
handleEncryptedMessageResume(S, t) ==
    IF ~Decrypted(t).ok \/ ~ParseOk(Decrypted(t).plaintext) THEN Resume(S, t)
    ELSE onMessageReceived(Resume(S, t), t.peer, ParsedContent(Decrypted(t).plaintext))

\* handleDataChannelMessage: dispatch on the frame's type.
handleDataChannelMessage(S, peerId, msg) ==
    CASE msg.type = "key_exchange" -> handleKeyExchange(S, peerId, msg)
      [] msg.type = "encrypted_message" -> handleEncryptedMessage(S, peerId, msg)
      [] msg.type = "typing_indicator" -> onTypingIndicator(S, peerId, msg.typing)
      [] OTHER -> S

\* WebRTCManager.sendMessage up to the await inside encrypt; "" is success so
\* far, anything else the error thrown to the caller.
ManagerSendError(S, peerId) ==
    IF ~IsOpen(S, S.dcm[peerId]) THEN "Data channel not available"
    ELSE IF ~hasSharedKey(S.keys, peerId) THEN "NoKeyError"
    ELSE ""

\* ------------------------------------------------------------------ actions
Contents == 0..MaxContent
Ivs == 0..MaxIv

\* A continuation started by a marked continuation is marked too.
Inherit(S1, S, t) ==
    LET old == {u.id : u \in S.tasks \ {t}}
    IN  [S1 EXCEPT !.tasks = {IF u.id \notin old /\ t.stale THEN [u EXCEPT !.stale = TRUE]
                              ELSE u : u \in S1.tasks}]

Step(n, S, op, p, res) == Commit(n, S, relay, op, p, res) /\ UNCHANGED box
Resumed(n, t, S1, op, res) ==
    Commit(n, Inherit(S1, St(n), t), relay, op, t.peer, res) /\ UNCHANGED box

\* connect(): the socket is created and the status becomes 'connecting'.
Connect(n) ==
    /\ signalingSocket[n] = "null"
    /\ Step(n, onConnectionStatusChanged([St(n) EXCEPT !.sock = "connecting"], "connecting"),
            "connect", "", "")

\* signalingSocket.onopen: status 'connected', join, first discovery ping.
SocketOpen(n) ==
    /\ signalingSocket[n] = "connecting"
    /\ Step(n, sendToSignalingServer(
                 sendToSignalingServer(
                     onConnectionStatusChanged([St(n) EXCEPT !.sock = "open"], "connected"),
                     "join", "", 0, 0),
                 "discovery_ping", "", 0, 0),
            "onopen", "", "")

\* signalingSocket.onclose: the socket is closed, the status becomes
\* 'disconnected'; nothing else is done.
onSocketCloseTeardown(S) ==
    onConnectionStatusChanged(disconnect(S), "disconnected")

onSocketClose(S) ==
    onConnectionStatusChanged([S EXCEPT !.sock = "closed"], "disconnected")

SocketClose(n) ==
    /\ signalingSocket[n] \in {"connecting", "open"}
    /\ Step(n, onSocketClose(St(n)), "onclose.socket", "", "")

\* handleSignalingMessage: peer_discovered.
PeerDiscovered(n, p) ==
    /\ signalingSocket[n] = "open"
    /\ Step(n, onPeerDiscovered(St(n), p), "peer_discovered", p, "")

\* handleSignalingMessage: discovery_ping of node nodeId.
handleDiscoveryPing(S, nodeId) ==
    IF nodeId # S.n
    THEN onPeerDiscovered(sendToSignalingServer(S, "discovery_pong", nodeId, None, None), nodeId)
    ELSE S

\* handleSignalingMessage: discovery_pong of node nodeId for targetNode.
handleDiscoveryPongAny(S, nodeId, targetNode) ==
    IF nodeId # S.n THEN onPeerDiscovered(S, nodeId) ELSE S

handleDiscoveryPong(S, nodeId, targetNode) ==
    IF targetNode = S.n /\ nodeId # S.n THEN onPeerDiscovered(S, nodeId) ELSE S

\* The relay broadcasts: a node receives every ping, its own too, and the
\* pongs meant for other nodes.
EnvDiscoveryPing(n, p) ==
    /\ signalingSocket[n] = "open"
    /\ Step(n, handleDiscoveryPing(St(n), p), "discovery_ping", p, "")

EnvDiscoveryPong(n, p, target) ==
    /\ signalingSocket[n] = "open"
    /\ Step(n, handleDiscoveryPong(St(n), p, target), "discovery_pong", p, target)

\* handleSignalingMessage: peer_disconnected.
PeerDisconnectedEnvelope(n, p) ==
    /\ signalingSocket[n] = "open"
    /\ Step(n, handlePeerDisconnected(St(n), p), "handlePeerDisconnected", p, "")

\* WebRTCManager.disconnect().
ManagerDisconnect(n) ==
    /\ signalingSocket[n] # "null"
    /\ Step(n, disconnect(St(n)), "disconnect", "", "")

CanConnect(S, p) ==
    \/ S.pcm[p] # None /\ S.pcs[S.pcm[p]].conn = "connected"
    \/ CanCreatePc(S) /\ CanCreateDc(S) /\ CanSuspend(S)

\* provider selectPeer(peer): peer is an entry of the directory.
SelectPeer(n, p) ==
    /\ peers[n][p].present
    /\ CanConnect(St(n), p)
    /\ Step(n, connectToPeerStart(
                 [St(n) EXCEPT !.sel = [id |-> p, online |-> peers[n][p].online,
                                        connectionState |-> peers[n][p].connectionState,
                                        encryptionEstablished |->
                                            peers[n][p].encryptionEstablished],
                               !.log = <<>>, !.typing = FALSE], p),
            "selectPeer", p, "")

ConnectToPeerResume(n) ==
    \E t \in tasks[n] :
        /\ t.kind = "connectToPeer"
        /\ Resumed(n, t, connectToPeerResume(St(n), t), "connectToPeer.resume",
                   IF t.stale THEN "stale" ELSE "")

\* WebRTCManager.connectToPeer(peerId) called directly.
ConnectToPeer(n, p) ==
    /\ CanConnect(St(n), p)
    /\ Step(n, connectToPeerStart(St(n), p), "connectToPeer", p, "")

\* WebRTCManager.disconnectFromPeer(peerId) called directly.
DisconnectFromPeer(n, p) ==
    Step(n, disconnectFromPeer(St(n), p), "handlePeerDisconnected", p, "")

\* provider disconnectPeer(peerId).
DisconnectPeer(n, p) ==
    /\ peers[n][p].present
    /\ LET S1 == disconnectFromPeer(St(n), p)
           S2 == [S1 EXCEPT !.dir[p] = NoPeer]
           S3 == IF S2.sel.id = p THEN [S2 EXCEPT !.sel = NoSelection, !.log = <<>>] ELSE S2
       IN  Step(n, S3, "handlePeerDisconnected", p, "disconnectPeer")

\* The provider's effect runs again because a prop changed (lines 67-202):
\* its cleanup disconnects the manager, then a new encryption service and a
\* new manager are created, the manager's callbacks close over the
\* selectedPeer of this render, and connect() is called.  The old manager's
\* objects stay closed and its handlers reach only the old manager, so the
\* step is taken when the old manager has no continuation pending and no
\* open handle outside its map.  The await on generateKey is part of the
\* step, and the key pairs of one node are not told apart.
Reinitialize(n) ==
    /\ signalingSocket[n] # "null"
    /\ tasks[n] = {}
    /\ \A x \in DOMAIN pcs[n] : pcs[n][x].closed \/ peerConnections[n][pcs[n][x].peer] = x
    /\ LET S1 == disconnect(St(n))
           S2 == [S1 EXCEPT !.keys = [p \in Nodes |-> NoKey],
                            !.dcs = [d \in DOMAIN S1.dcs |-> [S1.dcs[d] EXCEPT !.closeEvt = FALSE]],
                            !.hsel = S1.sel.id,
                            !.sock = "connecting"]
       IN  Step(n, onConnectionStatusChanged(S2, "connecting"), "useEffect", "", "")

\* The same with the key pair told apart: the new EncryptionService holds
\* the pair a second generateKey returns.
Restart(n) ==
    /\ keyPair[n] = NodeCode(n)
    /\ signalingSocket[n] # "null"
    /\ tasks[n] = {}
    /\ \A x \in DOMAIN pcs[n] : pcs[n][x].closed \/ peerConnections[n][pcs[n][x].peer] = x
    /\ LET S1 == disconnect(St(n))
           S2 == [S1 EXCEPT !.kp = FreshKey,
                            !.keys = [p \in Nodes |-> NoKey],
                            !.dcs = [d \in DOMAIN S1.dcs |-> [S1.dcs[d] EXCEPT !.closeEvt = FALSE]],
                            !.hsel = S1.sel.id,
                            !.sock = "connecting"]
       IN  Step(n, onConnectionStatusChanged(S2, "connecting"), "useEffect", "", "")

\* ------------------------------------------- inbound envelopes, environment
CanHandleOffer(S) == CanCreatePc(S) /\ CanSuspend(S)

\* An offer from a peer that is not modelled as a node.
EnvOffer(n, p) ==
    /\ signalingSocket[n] = "open" /\ p \notin live
    /\ CanHandleOffer(St(n))
    /\ Step(n, handleOfferStart(St(n), p, None), "handleOffer", p, "")

EnvAnswer(n, p) ==
    /\ signalingSocket[n] = "open" /\ p \notin live
    /\ CanSuspend(St(n))
    /\ peerConnections[n][p] # None
    /\ Step(n, handleAnswerStart(St(n), p, None), "handleAnswer", p, "")

CanQueue(S, p) == Len(S.pend[p].q) < MaxQueue /\ \A t \in S.tasks : Len(t.cands) < MaxQueue

\* The candidates node n has been handed on its open handles.  The far end's
\* candidates are distinct and are numbered in the order it sends them.
SeenCands(n) ==
    {c \in Cands : \E x \in DOMAIN pcs[n] :
        \/ \E i \in DOMAIN pcs[n][x].early : pcs[n][x].early[i] = c
        \/ \E i \in DOMAIN pcs[n][x].applied : pcs[n][x].applied[i] = c}

\* handleIceCandidate would queue the candidate.
WouldQueue(S, p) == S.pcm[p] # None /\ ~S.pcs[S.pcm[p]].remote

EnvCandidate(n, p) ==
    /\ signalingSocket[n] = "open" /\ p \notin live
    /\ WouldQueue(St(n), p) => CanQueue(St(n), p)
    /\ \E c \in Cands :
        /\ c \notin SeenCands(n)
        /\ \A b \in Cands : b < c => b \in SeenCands(n)
        /\ Step(n, handleIceCandidate(St(n), p, c), "handleIceCandidate", p, "")

\* An ice_candidate envelope whose payload is no candidate.
EnvMalformedCandidate(n, p) ==
    /\ signalingSocket[n] = "open" /\ p \notin live
    /\ WouldQueue(St(n), p) => CanQueue(St(n), p)
    /\ Step(n, handleIceCandidate(St(n), p, MalformedCand), "handleIceCandidate", p,
            IF peerConnections[n][p] # None /\ pcs[n][peerConnections[n][p]].remote
            THEN "rejected" ELSE "")

\* ------------------------------------------------- inbound envelopes, relay
RelayHead(n, type) ==
    /\ signalingSocket[n] = "open"
    /\ relay[n] # <<>>
    /\ Head(relay[n]).type = type

Received(n) == [relay EXCEPT ![n] = Tail(@)]

RelayOffer(n) ==
    /\ RelayHead(n, "offer")
    /\ CanHandleOffer(St(n))
    /\ LET e == Head(relay[n])
       IN  /\ Commit(n, handleOfferStart(St(n), e.senderId, e.pc), Received(n),
                     "handleOffer", e.senderId, "")
           /\ UNCHANGED box

RelayAnswer(n) ==
    /\ RelayHead(n, "answer")
    /\ CanSuspend(St(n))
    /\ LET e == Head(relay[n])
       IN  /\ Commit(n, handleAnswerStart(St(n), e.senderId, e.pc), Received(n),
                     "handleAnswer", e.senderId, "")
           /\ UNCHANGED box

\* ------------------------------------------------ negotiation continuations
HandleOfferSetRemoteResume(n) ==
    \E t \in tasks[n] :
        /\ t.kind = "handleOffer.setRemote"
        /\ Resumed(n, t, handleOfferSetRemoteResume(St(n), t), "handleOffer.resume",
                   IF t.stale THEN "stale" ELSE "")

HandleOfferAnswerResume(n) ==
    \E t \in tasks[n] :
        /\ t.kind = "handleOffer.answer"
        /\ Resumed(n, t, handleOfferAnswerResume(St(n), t), "handleOffer.resume",
                   IF t.stale THEN "stale" ELSE "")

HandleAnswerResume(n) ==
    \E t \in tasks[n] :
        /\ t.kind = "handleAnswer.setRemote"
        /\ Resumed(n, t, handleAnswerResume(St(n), t), "handleAnswer.resume",
                   IF t.stale THEN "stale" ELSE "")

FlushResume(n) ==
    \E t \in tasks[n] :
        /\ t.kind = "flush"
        /\ Resumed(n, t, flushResume(St(n), t), "flush.resume",
                   IF t.stale THEN "stale" ELSE "")

\* ---------------------------------------------------------- platform events
\* Both ends hold each other's description (an unmodelled peer always does).
Negotiated(n, x) ==
    LET h == pcs[n][x]
        m == h.peer
    IN  /\ ~h.closed /\ h.remote
        /\ m \in live =>
             /\ h.link \in DOMAIN pcs[m]
             /\ ~pcs[m][h.link].closed
             /\ pcs[m][h.link].remote
             /\ pcs[m][h.link].link = x

\* The channel the far end created on the handle y is linked to.
OfferedDc(n, y) ==
    LET m == pcs[n][y].peer
        made == {a \in DOMAIN dcs[m] : dcs[m][a].pc = pcs[n][y].link /\ dcs[m][a].peer = n}
    IN  IF m \in live /\ made # {} THEN CHOOSE a \in made : TRUE ELSE None

\* peerConnection.ondatachannel on the answering side.
OnDataChannel(n, y) ==
    /\ y \in DOMAIN pcs[n]
    /\ pcs[n][y].role = "answerer"
    /\ Negotiated(n, y)
    /\ pcs[n][y].peer \in live => OfferedDc(n, y) # None
    /\ \A d \in DOMAIN dcs[n] : dcs[n][d].pc # y
    /\ CanCreateDc(St(n))
    /\ LET S == St(n)
           d == Len(S.dcs) + 1
           S1 == [S EXCEPT !.dcs = Append(@, NewDc(pcs[n][y].peer, y, OfferedDc(n, y)))]
       IN  Step(n, setupDataChannel(S1, d, pcs[n][y].peer), "ondatachannel",
                pcs[n][y].peer, "")

\* dataChannel.onopen: arms the 1500 ms key-exchange timer.
DcOpen(n, d) ==
    /\ d \in DOMAIN dcs[n]
    /\ dcs[n][d].state = "connecting"
    /\ Negotiated(n, dcs[n][d].pc)
    /\ dcs[n][d].peer \in live => FarDc(n, d) # None
    /\ CanSuspend(St(n))
    /\ Step(n, Suspend([St(n) EXCEPT !.dcs[d].state = "open"],
                       Task("keyExchangeTimer", dcs[n][d].peer, None, d)),
            "onopen.channel", dcs[n][d].peer, "")

\* dataChannel.onclose: the far end or the transport closed the channel, or
\* the close event of a channel closed with its handle is dispatched.
onclose(S, d) ==
    [S EXCEPT !.dcs[d].state = "closed", !.dcs[d].closeEvt = FALSE, !.dcs[d].inbox = <<>>,
              !.dcm[S.dcs[d].peer] = None]

FarClosed(n, d) ==
    LET m == dcs[n][d].peer
        x == dcs[n][d].pc
    IN  m \in live => /\ pcs[n][x].link \in DOMAIN pcs[m]
                      /\ pcs[m][pcs[n][x].link].closed

DcClose(n, d) ==
    /\ d \in DOMAIN dcs[n]
    /\ \/ dcs[n][d].state = "open" /\ FarClosed(n, d)
       \/ dcs[n][d].state = "closed" /\ dcs[n][d].closeEvt
    /\ Step(n, onclose(St(n), d), "onclose", dcs[n][d].peer, "")

\* peerConnection.onconnectionstatechange.
onconnectionstatechange(S, x, state) ==
    LET p  == S.pcs[x].peer
        S1 == onPeerConnectionStateChanged(
                  [S EXCEPT !.pcs[x].conn = state, !.cst[p] = state], p, state)
    IN  IF state = "failed" THEN handlePeerDisconnected(S1, p) ELSE S1

ConnectionStateChange(n, x) ==
    /\ x \in DOMAIN pcs[n]
    /\ ~pcs[n][x].closed
    /\ \E state \in {"connected", "failed"} :
        /\ \/ state = "connected" /\ pcs[n][x].conn = "new" /\ Negotiated(n, x)
           \/ state = "failed" /\ pcs[n][x].conn \in {"new", "connected", "disconnected"}
                               /\ (pcs[n][x].remote \/ pcs[n][x].sig # "stable")
        /\ Step(n, onconnectionstatechange(St(n), x, state),
                IF state = "failed" THEN "handlePeerDisconnected" ELSE "onconnectionstatechange",
                pcs[n][x].peer, state)

\* The handle's connection state leaves 'connected' and comes back.
ConnectionInterrupted(n, x) ==
    /\ x \in DOMAIN pcs[n]
    /\ ~pcs[n][x].closed
    /\ \E state \in {"disconnected", "connected"} :
        /\ \/ state = "disconnected" /\ pcs[n][x].conn = "connected"
           \/ state = "connected" /\ pcs[n][x].conn = "disconnected"
        /\ Step(n, onconnectionstatechange(St(n), x, state), "onconnectionstatechange",
                pcs[n][x].peer, state)

\* The grace timers of a node fire in the order they were armed: idx is a
\* timer's place in that order.
GraceTimers(S) == {t \in S.tasks : t.kind = "iceGraceTimer"}
NextGraceOrder(S) ==
    IF GraceTimers(S) = {} THEN 1
    ELSE 1 + (CHOOSE i \in {t.idx : t \in GraceTimers(S)} :
                 \A t \in GraceTimers(S) : t.idx <= i)

\* peerConnection.oniceconnectionstatechange: 'failed' calls restartIce(),
\* 'disconnected' arms the 10 s timer.
oniceconnectionstatechange(S, x, state) ==
    LET S1 == [S EXCEPT !.pcs[x].ice = state]
    IN  IF state = "failed" THEN [S1 EXCEPT !.pcs[x].restarted = TRUE]
        ELSE IF state = "disconnected"
        THEN Suspend(S1, [Task("iceGraceTimer", S.pcs[x].peer, x, None) EXCEPT
                             !.idx = NextGraceOrder(S)])
        ELSE S1

\* The link left 'disconnected' while timer t of handle x was armed
\* (bookkeeping: the code keeps no such mark).
Interrupt(S, x) ==
    [S EXCEPT !.tasks = {IF t.kind = "iceGraceTimer" /\ t.pc = x THEN [t EXCEPT !.flag = TRUE]
                         ELSE t : t \in S.tasks}]

\* The ICE agent changes the state of handle x.  restartIce() has no effect
\* without a negotiation, which the manager never starts, so 'failed' stays.
\* A platform that has connectionState moves it to 'failed' in the same task
\* and dispatches connectionstatechange after iceconnectionstatechange.
IceStateChange(n, x) ==
    /\ x \in DOMAIN pcs[n]
    /\ ~pcs[n][x].closed
    /\ \E state \in {"connected", "disconnected", "failed"}, both \in BOOLEAN :
        /\ \/ state = "connected" /\ pcs[n][x].ice \in {"new", "disconnected"}
                                  /\ Negotiated(n, x) /\ ~both
           \/ state = "disconnected" /\ pcs[n][x].ice = "connected" /\ CanSuspend(St(n))
                                     /\ ~both
           \/ state = "failed" /\ pcs[n][x].ice \in {"new", "disconnected"} /\ pcs[n][x].remote
                               /\ (both => pcs[n][x].conn # "failed")
        /\ LET S0 == IF state = "disconnected" THEN St(n) ELSE Interrupt(St(n), x)
               S1 == oniceconnectionstatechange(S0, x, state)
           IN  Step(n, IF both THEN onconnectionstatechange(S1, x, "failed") ELSE S1,
                    "oniceconnectionstatechange", pcs[n][x].peer, state)

\* The 10 s timer armed on 'disconnected' fires: teardown of the peer if the
\* handle's state is 'disconnected' now.
Fired(S, t) ==
    [S EXCEPT !.tasks = {IF u.kind = "iceGraceTimer" THEN [u EXCEPT !.idx = @ - 1] ELSE u :
                         u \in S.tasks \ {t}}]

iceGraceTimerFired(S, t) ==
    IF S.pcs[t.pc].ice = "disconnected"
    THEN handlePeerDisconnected(Fired(S, t), t.peer)
    ELSE Fired(S, t)

IceGraceTimer(n) ==
    \E t \in tasks[n] :
        /\ t.kind = "iceGraceTimer"
        /\ \A u \in GraceTimers(St(n)) : t.idx <= u.idx
        /\ Resumed(n, t, iceGraceTimerFired(St(n), t), "iceGraceTimer",
                   IF pcs[n][t.pc].ice = "disconnected" THEN "teardown" ELSE "")

\* ------------------------------------------------------------ key exchange
KeyExchangeTimer(n) ==
    \E t \in tasks[n] :
        /\ t.kind = "keyExchangeTimer"
        /\ Resumed(n, t, performKeyExchange(Resume(St(n), t), t.peer), "performKeyExchange",
                   IF t.stale THEN "stale" ELSE "")

PerformKeyExchangeResume(n) ==
    \E t \in tasks[n] :
        /\ t.kind = "performKeyExchange.send"
        /\ Resumed(n, t, performKeyExchangeResume(St(n), t), "performKeyExchange.resume",
                   IF t.stale THEN "stale" ELSE "")

HandleKeyExchangeDerived(n) ==
    \E t \in tasks[n] :
        /\ t.kind = "handleKeyExchange.derive"
        /\ Resumed(n, t, handleKeyExchangeDerived(St(n), t), "handleKeyExchange.derived",
                   IF ~ImportKeyOk(t.bytes) THEN "DataError"
                   ELSE IF t.stale THEN "stale" ELSE "")

HandleKeyExchangeReply(n) ==
    \E t \in tasks[n] :
        /\ t.kind = "handleKeyExchange.reply"
        /\ Resumed(n, t, handleKeyExchangeReply(St(n), t), "handleKeyExchange.reply",
                   IF t.stale THEN "stale" ELSE "")

HandleEncryptedMessageResume(n) ==
    \E t \in tasks[n] :
        /\ t.kind = "handleEncryptedMessage"
        /\ Len(messages[n]) < MaxLog
        /\ Resumed(n, t, handleEncryptedMessageResume(St(n), t), "handleEncryptedMessage.resume",
                   IF ~Decrypted(t).ok THEN Decrypted(t).err
                   ELSE IF t.stale THEN "stale" ELSE "")

\* ----------------------------------------------------------- inbound frames
\* What an unmodelled peer p can put on a channel to n: its public key or a
\* malformed one, and messages under the key it shares with n or another key.
EnvFrames(n, p) ==
    {KeyExchangeFrame(ExportKey(NodeCode(p)), r) : r \in BOOLEAN}
    \cup {KeyExchangeFrame(<<4>>, FALSE)}
    \cup {EncryptedMessageFrame(
              AesGcmEncrypt(DeriveKey(NodeCode(p), NodeCode(n)), 0, EncodeMessageData(c, p)), 0) :
            c \in Contents}
    \cup {EncryptedMessageFrame(
              AesGcmEncrypt(DeriveKey(NodeCode(p), NodeCode(p)), 0, EncodeMessageData(0, p)), 0)}
    \cup {TypingFrame(b) : b \in BOOLEAN}

\* dataChannel.onmessage with a frame of an unmodelled peer; types are the
\* frame types that peer sends.
EnvFrame(n, d, types) ==
    /\ d \in DOMAIN dcs[n]
    /\ dcs[n][d].state = "open"
    /\ dcs[n][d].peer \notin live
    /\ CanSuspend(St(n))
    /\ \E f \in {g \in EnvFrames(n, dcs[n][d].peer) : g.type \in types} :
        Step(n, handleDataChannelMessage(St(n), dcs[n][d].peer, f),
             "onmessage", dcs[n][d].peer, f.type)

\* dataChannel.onmessage with the next frame in flight from a modelled peer.
DcReceive(n, d) ==
    /\ d \in DOMAIN dcs[n]
    /\ dcs[n][d].state = "open"
    /\ dcs[n][d].inbox # <<>>
    /\ CanSuspend(St(n))
    /\ LET f == Head(dcs[n][d].inbox)
           S == [St(n) EXCEPT !.dcs[d].inbox = Tail(@),
                              !.cnt.recvFirst = @ \/ (f.type = "key_exchange" /\ ~f.isResponse
                                                      /\ counts[n].kxSent = counts[n].kxReplies)]
       IN  Step(n, handleDataChannelMessage(S, dcs[n][d].peer, f),
                "onmessage", dcs[n][d].peer, f.type)

\* ------------------------------------------------------------------ sending
\* encryptionEstablished of the selected peer: of the Peer object selectPeer
\* was given, or of the peer's entry in the directory.
SelectedEstablished(S) ==
    \/ S.sel.encryptionEstablished
    \/ S.sel.id # "" /\ S.dir[S.sel.id].encryptionEstablished

\* provider sendMessage(content) up to the await inside encrypt.  The task
\* keeps the flag of the selected peer at the call (bookkeeping).
sendMessageStart(S, content, iv) ==
    LET p  == S.sel.id
        S1 == [S EXCEPT !.log = Append(@, [content |-> content, sender |-> S.n,
                                           encrypted |-> TRUE, isOwn |-> TRUE])]
    IN  IF p = "" \/ ManagerSendError(S1, p) # "" THEN (IF p = "" THEN S ELSE S1)
        ELSE Suspend(S1, [Task("sendMessage", p, None, S1.dcm[p]) EXCEPT
                            !.bytes = encrypt(S1.keys, EncodeMessageData(content, S.n),
                                              iv, p).ciphertext,
                            !.idx = iv, !.flag = SelectedEstablished(S)])

SendError(S) ==
    IF S.sel.id = "" THEN "No peer selected" ELSE ManagerSendError(S, S.sel.id)

SendMessage(n) ==
    /\ Len(messages[n]) < MaxLog
    /\ CanSuspend(St(n))
    /\ \E content \in Contents, iv \in Ivs :
        Step(n, sendMessageStart(St(n), content, iv), "sendMessage", selectedPeer[n].id,
             SendError(St(n)))

\* WebRTCManager.sendMessage after encrypt: send throws on a closed channel.
sendMessageResumeTwice(S, t) ==
    IF ~IsOpen(S, t.dc) THEN Resume(S, t)
    ELSE DcSend(DcSend(Resume(S, t), t.dc, EncryptedMessageFrame(t.bytes, t.idx)),
                t.dc, EncryptedMessageFrame(t.bytes, t.idx))

sendMessageResume(S, t) ==
    IF ~IsOpen(S, t.dc) THEN Resume(S, t)
    ELSE DcSend(Resume(S, t), t.dc, EncryptedMessageFrame(t.bytes, t.idx))

SendMessageResume(n) ==
    \E t \in tasks[n] :
        /\ t.kind = "sendMessage"
        /\ Resumed(n, t, sendMessageResume(St(n), t), "sendMessage.resume",
                   IF ~IsOpen(St(n), t.dc) THEN "InvalidStateError" ELSE "")

\* ------------------------------------------------------------ AudioManager
Called(M, op) == [M EXCEPT !.op = op, !.res = "", !.events = <<>>]

onLocalAudioStateChanged(M, enabled) ==
    [M EXCEPT !.events = Append(@, [name |-> "local-audio-state", on |-> enabled])]

onAudioLevelChanged(M, type) ==
    [M EXCEPT !.events = Append(@, [name |-> "audio-level", on |-> type = "local"])]

\* analyzeAudio of loop l: a level per analyser, then the next frame is
\* requested and its handle stored.
analyzeAudio(M, l) ==
    LET M1 == IF M.localAnalyser THEN onAudioLevelChanged(M, "local") ELSE M
        M2 == IF M1.remoteAnalyser THEN onAudioLevelChanged(M1, "remote") ELSE M1
    IN  [M2 EXCEPT !.animationFrame = l, !.loops = @ \cup {l}]

startAudioLevelMonitoring(M) ==
    analyzeAudio([M EXCEPT !.started = @ + 1], M.started + 1)

\* setupLocalAudioAnalysis with a context that is running once created.
setupLocalAudioAnalysis(M) ==
    IF M.localAudioStream = 0 THEN M
    ELSE startAudioLevelMonitoring([M EXCEPT !.audioContext = TRUE, !.localAnalyser = TRUE])

\* startLocalAudio up to its await on getUserMedia.
startLocalAudio(M) ==
    IF M.localAudioStream # 0 THEN [M EXCEPT !.res = "already"]
    ELSE [M EXCEPT !.pending = @ \cup {[id |-> M.started + Cardinality(M.pending) + 1,
                                        kind |-> "startLocalAudio"]}, !.res = "pending"]

\* getUserMedia resolved for call t: the stream is stored, analysed and
\* reported.
getUserMediaResolved(M, t) ==
    LET M1 == [M EXCEPT !.pending = @ \ {t},
                        !.streams = Append(@, TRUE),
                        !.localAudioStream = Len(M.streams) + 1]
    IN  onLocalAudioStateChanged(setupLocalAudioAnalysis(M1), TRUE)

\* getUserMedia rejected: the catch of startLocalAudio reports, the catch of
\* switchAudioDevice does not.
getUserMediaRejected(M, t) ==
    LET M1 == [M EXCEPT !.pending = @ \ {t}, !.res = "rejected"]
    IN  IF t.kind = "startLocalAudio" THEN onLocalAudioStateChanged(M1, FALSE) ELSE M1

stopLocalAudio(M) ==
    IF M.localAudioStream = 0 THEN M
    ELSE onLocalAudioStateChanged(
             [M EXCEPT !.streams[M.localAudioStream] = FALSE,
                       !.localAudioStream = 0,
                       !.localAnalyser = FALSE], FALSE)

\* switchAudioDevice up to its await on getUserMedia.
switchAudioDevice(M) ==
    [stopLocalAudio(M) EXCEPT
        !.pending = @ \cup {[id |-> M.started + Cardinality(M.pending) + 1,
                             kind |-> "switchAudioDevice"]}, !.res = "pending"]

setRemoteAudioStream(M, stream) ==
    [M EXCEPT !.remoteAudioStream = stream,
              !.audioContext = @ \/ stream,
              !.remoteAnalyser = stream,
              !.events = Append(@, [name |-> "remote-audio-stream", on |-> stream])]

cleanup(M) ==
    [M EXCEPT !.loops = IF M.animationFrame # 0 THEN @ \ {M.animationFrame} ELSE @,
              !.animationFrame = 0,
              !.streams = IF M.localAudioStream # 0
                          THEN [@ EXCEPT ![M.localAudioStream] = FALSE] ELSE @,
              !.localAudioStream = 0,
              !.audioContext = FALSE,
              !.localAnalyser = FALSE,
              !.remoteAnalyser = FALSE,
              !.remoteAudioStream = FALSE,
              !.cleaned = TRUE]

\* A step of the AudioManager: nothing else moves.
AudioStep(M) ==
    /\ audio' = M
    /\ UNCHANGED <<live, keyPair, sharedKeys, signalingSocket, peerConnections, dataChannels,
                   pendingIceCandidates, connectionStates, pcs, dcs, tasks, relay, peers,
                   selectedPeer, handlerSelectedPeer, messages, isTyping, connectionStatus,
                   counts, box, out>>

CanCall(M) ==
    /\ ~M.cleaned
    /\ Cardinality(M.pending) < MaxCalls
    /\ Len(M.streams) + Cardinality(M.pending) < MaxStreams

StartLocalAudio ==
    /\ CanCall(audio)
    /\ AudioStep(startLocalAudio(Called(audio, "startLocalAudio")))

StopLocalAudio ==
    /\ ~audio.cleaned
    /\ AudioStep(stopLocalAudio(Called(audio, "stopLocalAudio")))

SwitchAudioDevice ==
    /\ CanCall(audio)
    /\ AudioStep(switchAudioDevice(Called(audio, "switchAudioDevice")))

GetUserMediaResolved ==
    \E t \in audio.pending :
        AudioStep(getUserMediaResolved(Called(audio, "getUserMedia"), t))

GetUserMediaRejected ==
    \E t \in audio.pending :
        AudioStep(getUserMediaRejected(Called(audio, "getUserMedia"), t))

SetRemoteAudioStream ==
    /\ ~audio.cleaned
    /\ \E stream \in BOOLEAN :
        AudioStep(setRemoteAudioStream(Called(audio, "setRemoteAudioStream"), stream))

\* The browser runs the frame callback of loop l.
AnimationFrame ==
    \E l \in audio.loops : AudioStep(analyzeAudio(Called(audio, "analyzeAudio"), l))

Cleanup ==
    /\ ~audio.cleaned
    /\ AudioStep(cleanup(Called(audio, "cleanup")))

\* ------------------------------------------- EncryptionService called directly
Payloads == {<<>>, <<255>>, <<1, 255>>}
CodecPeer(n) == IF n = "A" THEN "B" ELSE "A"
\* The public keys node n is handed for its peer: the peer's, a third
\* party's, and bytes that are no key.
PublicKeys(n) == {ExportKey(NodeCode(CodecPeer(n))), ExportKey(NodeCode("C")), <<4>>}

EstablishSharedKey(n, p) ==
    /\ CanSuspend(St(n))
    /\ \E pub \in PublicKeys(n) :
        LET S == establishSharedKey(St(n), p, pub, "establishSharedKey", FALSE)
        IN  Commit(n, S, relay, "establishSharedKey", p,
                   IF S.tasks = tasks[n] THEN "returned" ELSE "pending")
    /\ UNCHANGED box

EstablishSharedKeyDerived(n) ==
    \E t \in tasks[n] :
        /\ t.kind = "establishSharedKey"
        /\ Commit(n, establishSharedKeyDerived(St(n), t), relay, "establishSharedKey.derived",
                  t.peer, IF ImportKeyOk(t.bytes) THEN "returned" ELSE "error")
        /\ UNCHANGED box

RemoveSharedKey(n, p) ==
    /\ Commit(n, [St(n) EXCEPT !.keys = removeSharedKey(@, p)], relay, "removeSharedKey", p, "")
    /\ UNCHANGED box

RotateKey(n, p) ==
    /\ Commit(n, [St(n) EXCEPT !.keys = rotateKey(@, p)], relay, "rotateKey", p, "")
    /\ UNCHANGED box

\* encrypt(plaintext, peerId): the service is not changed; the call, the key
\* it used and what it returned are kept for a later decrypt.
Encrypt(n, p) ==
    \E m \in Payloads, iv \in Ivs :
        LET r == encrypt(sharedKeys[n], m, iv, p)
        IN  /\ Commit(n, St(n), relay, "encrypt", p, IF r.ok THEN "returned" ELSE r.err)
            /\ box' = [NoBox EXCEPT !.by = n, !.for = p, !.m = m, !.iv = iv,
                                    !.key = sharedKeys[n][p], !.ok = r.ok,
                                    !.ciphertext = r.ciphertext]

\* decrypt(ciphertext, iv, peerId) of the bytes and the nonce of the kept
\* encrypt call (no bytes when that call failed or none was made).
Decrypt(n, p) ==
    LET r == decrypt(sharedKeys[n], box.ciphertext, box.iv, p)
    IN  /\ Commit(n, St(n), relay, "decrypt", p, IF r.ok THEN "returned" ELSE r.err)
        /\ box' = [box EXCEPT !.reader = n, !.from = p, !.opened = r.ok, !.err = r.err,
                              !.plaintext = r.plaintext]

\* ----------------------------------------------------------- specifications
\* Spec: the session life cycle of one manager that initiates towards one
\* peer.  The peer is not modelled as a node: its envelopes and frames and
\* the platform's events come from the environment.
Init == InitWith({"A"})

Next ==
    \/ Connect("A")
    \/ SocketOpen("A")
    \/ PeerDisconnectedEnvelope("A", "B")
    \/ ManagerDisconnect("A")
    \/ ConnectToPeer("A", "B")
    \/ ConnectToPeerResume("A")
    \/ DisconnectFromPeer("A", "B")
    \/ EnvAnswer("A", "B")
    \/ HandleAnswerResume("A")
    \/ \E d \in 1..MaxDc : DcOpen("A", d)
    \/ \E d \in 1..MaxDc : DcClose("A", d)
    \/ \E x \in 1..MaxPc : ConnectionStateChange("A", x)
    \/ KeyExchangeTimer("A")
    \/ PerformKeyExchangeResume("A")
    \/ HandleKeyExchangeDerived("A")
    \/ HandleKeyExchangeReply("A")
    \/ \E d \in 1..MaxDc : EnvFrame("A", d, {"key_exchange"})

Spec == Init /\ [][Next]_vars

\* SpecSession: one session of the initiating side from its creation to its
\* teardown, with the candidates of the far end.
NextSession ==
    \/ Connect("A")
    \/ SocketOpen("A")
    \/ PeerDisconnectedEnvelope("A", "B")
    \/ ManagerDisconnect("A")
    \/ pcs["A"] = <<>> /\ ConnectToPeer("A", "B")
    \/ ConnectToPeerResume("A")
    \/ DisconnectFromPeer("A", "B")
    \/ EnvAnswer("A", "B")
    \/ EnvCandidate("A", "B")
    \/ HandleAnswerResume("A")
    \/ FlushResume("A")
    \/ \E d \in 1..MaxDc : DcOpen("A", d)
    \/ \E d \in 1..MaxDc : DcClose("A", d)
    \/ \E x \in 1..MaxPc : ConnectionStateChange("A", x)
    \/ KeyExchangeTimer("A")
    \/ PerformKeyExchangeResume("A")
    \/ HandleKeyExchangeDerived("A")
    \/ HandleKeyExchangeReply("A")
    \/ \E d \in 1..MaxDc : EnvFrame("A", d, {"key_exchange"})

SpecSession == Init /\ [][NextSession]_vars

\* SpecIce: the answering side: inbound offers and candidates, the flush of
\* the pending queue, teardown.
NextIce ==
    \/ Connect("A")
    \/ SocketOpen("A")
    \/ EnvOffer("A", "B")
    \/ EnvCandidate("A", "B")
    \/ HandleOfferSetRemoteResume("A")
    \/ FlushResume("A")
    \/ HandleOfferAnswerResume("A")
    \/ PeerDisconnectedEnvelope("A", "B")

SpecIce == Init /\ [][NextIce]_vars

\* SpecChat: the provider on top of one session: directory, selection,
\* sending and receiving.
NextChat ==
    \/ Connect("A")
    \/ SocketOpen("A")
    \/ PeerDiscovered("A", "B")
    \/ SelectPeer("A", "B")
    \/ ConnectToPeerResume("A")
    \/ DisconnectPeer("A", "B")
    \/ EnvAnswer("A", "B")
    \/ HandleAnswerResume("A")
    \/ \E d \in 1..MaxDc : DcOpen("A", d)
    \/ KeyExchangeTimer("A")
    \/ PerformKeyExchangeResume("A")
    \/ HandleKeyExchangeDerived("A")
    \/ HandleKeyExchangeReply("A")
    \/ HandleEncryptedMessageResume("A")
    \/ \E d \in 1..MaxDc : EnvFrame("A", d, {"key_exchange", "encrypted_message"})
    \/ SendMessage("A")
    \/ SendMessageResume("A")

SpecChat == Init /\ [][NextChat]_vars

\* SpecProvider: the provider's directory, selection, log and typing state
\* over the sessions of one peer, with the effect running again.
NextProvider ==
    \/ Connect("A")
    \/ SocketOpen("A")
    \/ PeerDiscovered("A", "B")
    \/ SelectPeer("A", "B")
    \/ ConnectToPeerResume("A")
    \/ DisconnectPeer("A", "B")
    \/ Reinitialize("A")
    \/ EnvAnswer("A", "B")
    \/ HandleAnswerResume("A")
    \/ \E d \in 1..MaxDc : DcOpen("A", d)
    \/ \E x \in 1..MaxPc : ConnectionStateChange("A", x)
    \/ KeyExchangeTimer("A")
    \/ PerformKeyExchangeResume("A")
    \/ \E d \in 1..MaxDc : EnvFrame("A", d, {"typing_indicator"})
    \/ SendMessage("A")

SpecProvider == Init /\ [][NextProvider]_vars

\* SpecSelect: the user selects peer C first and then switches to peer B
\* while the sessions are negotiated and keyed.
NextSelect ==
    \/ Connect("A")
    \/ SocketOpen("A")
    \/ \E p \in {"B", "C"} : ~peers["A"][p].present /\ PeerDiscovered("A", p)
    \/ pcs["A"] = <<>> /\ SelectPeer("A", "C")
    \/ SelectPeer("A", "B")
    \/ ConnectToPeerResume("A")
    \/ \E p \in {"B", "C"} : EnvAnswer("A", p)
    \/ HandleAnswerResume("A")
    \/ \E d \in 1..MaxDc : DcOpen("A", d)
    \/ \E x \in 1..MaxPc : ConnectionStateChange("A", x)
    \/ KeyExchangeTimer("A")
    \/ PerformKeyExchangeResume("A")
    \/ HandleKeyExchangeDerived("A")
    \/ HandleKeyExchangeReply("A")
    \/ \E d \in 1..MaxDc : EnvFrame("A", d, {"key_exchange"})

SpecSelect == Init /\ [][NextSelect]_vars

\* SpecVisible: the user selects peer C, whose session is negotiated and
\* keyed, and then switches to peer B; both peers send messages.
NextVisible ==
    \/ Connect("A")
    \/ SocketOpen("A")
    \/ \E p \in {"B", "C"} : ~peers["A"][p].present /\ PeerDiscovered("A", p)
    \/ pcs["A"] = <<>> /\ SelectPeer("A", "C")
    \/ Len(pcs["A"]) = 1 /\ SelectPeer("A", "B")
    \/ ConnectToPeerResume("A")
    \/ \E p \in {"B", "C"} : EnvAnswer("A", p)
    \/ HandleAnswerResume("A")
    \/ \E d \in 1..MaxDc : DcOpen("A", d)
    \/ KeyExchangeTimer("A")
    \/ PerformKeyExchangeResume("A")
    \/ HandleKeyExchangeDerived("A")
    \/ HandleKeyExchangeReply("A")
    \/ HandleEncryptedMessageResume("A")
    \/ \E d \in 1..MaxDc : EnvFrame("A", d, {"key_exchange", "encrypted_message"})
    \/ SendMessage("A")
    \/ SendMessageResume("A")

SpecVisible == Init /\ [][NextVisible]_vars

\* SpecDiscovery: the relay's discovery traffic at one manager: pings and
\* pongs of every node, announcements and departures.
NextDiscovery ==
    \/ Connect("A")
    \/ SocketOpen("A")
    \/ SocketClose("A")
    \/ \E p \in {"B", "C"} : PeerDiscovered("A", p)
    \/ \E p \in {"B", "C"} : PeerDisconnectedEnvelope("A", p)
    \/ \E p \in Nodes : EnvDiscoveryPing("A", p)
    \/ \E p, target \in Nodes : EnvDiscoveryPong("A", p, target)

SpecDiscovery == Init /\ [][NextDiscovery]_vars

\* SpecAudio: the AudioManager under any order of its calls, with the
\* platform resolving getUserMedia and running frame callbacks in between.
NextAudio ==
    \/ StartLocalAudio
    \/ StopLocalAudio
    \/ SwitchAudioDevice
    \/ GetUserMediaResolved
    \/ GetUserMediaRejected
    \/ SetRemoteAudioStream
    \/ AnimationFrame
    \/ Cleanup

SpecAudio == Init /\ [][NextAudio]_vars

\* SpecCapture: the calls of the provider's audio toggle only, startLocalAudio
\* and stopLocalAudio, with the remote leg attaching independently.
NextCapture ==
    \/ StartLocalAudio
    \/ StopLocalAudio
    \/ GetUserMediaResolved
    \/ GetUserMediaRejected
    \/ SetRemoteAudioStream
    \/ AnimationFrame

SpecCapture == Init /\ [][NextCapture]_vars

\* SpecNegotiation: one manager that initiates once and answers once, with
\* the far end's candidates, well-formed or not, and teardowns that close a
\* handle a continuation still awaits on.
NextNegotiation ==
    \/ Connect("A")
    \/ SocketOpen("A")
    \/ PeerDisconnectedEnvelope("A", "B")
    \/ pcs["A"] = <<>> /\ ConnectToPeer("A", "B")
    \/ ConnectToPeerResume("A")
    \/ Len(pcs["A"]) = 1 /\ EnvOffer("A", "B")
    \/ HandleOfferSetRemoteResume("A")
    \/ HandleOfferAnswerResume("A")
    \/ EnvAnswer("A", "B")
    \/ HandleAnswerResume("A")
    \/ EnvCandidate("A", "B")
    \/ EnvMalformedCandidate("A", "B")
    \/ FlushResume("A")

SpecNegotiation == Init /\ [][NextNegotiation]_vars

\* SpecLink: the sessions one manager initiates towards one peer and the
\* platform's connection-state events on their handles.
NextLink ==
    \/ Connect("A")
    \/ SocketOpen("A")
    \/ ConnectToPeer("A", "B")
    \/ ConnectToPeerResume("A")
    \/ EnvAnswer("A", "B")
    \/ HandleAnswerResume("A")
    \/ \E d \in 1..MaxDc : DcOpen("A", d)
    \/ KeyExchangeTimer("A")
    \/ PerformKeyExchangeResume("A")
    \/ \E x \in 1..MaxPc : ConnectionStateChange("A", x)
    \/ \E x \in 1..MaxPc : ConnectionInterrupted("A", x)

SpecLink == Init /\ [][NextLink]_vars

\* SpecGrace: the sessions one manager initiates towards one peer and the
\* ICE agent's events on their handles, with the grace timers they arm.
NextGrace ==
    \/ Connect("A")
    \/ SocketOpen("A")
    \/ ConnectToPeer("A", "B")
    \/ ConnectToPeerResume("A")
    \/ EnvAnswer("A", "B")
    \/ HandleAnswerResume("A")
    \/ \E d \in 1..MaxDc : DcOpen("A", d)
    \/ KeyExchangeTimer("A")
    \/ PerformKeyExchangeResume("A")
    \/ \E x \in 1..MaxPc : IceStateChange("A", x)
    \/ IceGraceTimer("A")

SpecGrace == Init /\ [][NextGrace]_vars

\* SpecRelay: one session of the initiating side and the loss of the relay
\* connection at any moment of it.
NextRelay ==
    \/ Connect("A")
    \/ SocketOpen("A")
    \/ SocketClose("A")
    \/ ~peers["A"]["B"].present /\ PeerDiscovered("A", "B")
    \/ PeerDisconnectedEnvelope("A", "B")
    \/ pcs["A"] = <<>> /\ ConnectToPeer("A", "B")
    \/ ConnectToPeerResume("A")
    \/ EnvAnswer("A", "B")
    \/ EnvCandidate("A", "B")
    \/ HandleAnswerResume("A")
    \/ FlushResume("A")
    \/ \E d \in 1..MaxDc : DcOpen("A", d)
    \/ \E x \in 1..MaxPc : ConnectionStateChange("A", x)
    \/ KeyExchangeTimer("A")
    \/ PerformKeyExchangeResume("A")
    \/ HandleKeyExchangeDerived("A")
    \/ HandleKeyExchangeReply("A")
    \/ \E d \in 1..MaxDc : EnvFrame("A", d, {"key_exchange"})

SpecRelay == Init /\ [][NextRelay]_vars

\* SpecInbox: one session of the initiating side with inbound key exchanges
\* and encrypted messages, and its teardown.
NextInbox ==
    \/ Connect("A")
    \/ SocketOpen("A")
    \/ PeerDisconnectedEnvelope("A", "B")
    \/ pcs["A"] = <<>> /\ ConnectToPeer("A", "B")
    \/ ConnectToPeerResume("A")
    \/ EnvAnswer("A", "B")
    \/ HandleAnswerResume("A")
    \/ \E d \in 1..MaxDc : DcOpen("A", d)
    \/ \E d \in 1..MaxDc : DcClose("A", d)
    \/ KeyExchangeTimer("A")
    \/ PerformKeyExchangeResume("A")
    \/ HandleKeyExchangeDerived("A")
    \/ HandleKeyExchangeReply("A")
    \/ HandleEncryptedMessageResume("A")
    \/ \E d \in 1..MaxDc : EnvFrame("A", d, {"key_exchange", "encrypted_message"})

SpecInbox == Init /\ [][NextInbox]_vars

\* SpecPair: two nodes and one session between them; A initiates once, the
\* relay and the channel deliver in order and lose nothing.
InitPair == InitWith({"A", "B"})

NextPair ==
    \/ \E n \in {"A", "B"} : Connect(n)
    \/ \E n \in {"A", "B"} : SocketOpen(n)
    \/ pcs["A"] = <<>> /\ ConnectToPeer("A", "B")
    \/ ConnectToPeerResume("A")
    \/ RelayOffer("B")
    \/ HandleOfferSetRemoteResume("B")
    \/ HandleOfferAnswerResume("B")
    \/ RelayAnswer("A")
    \/ HandleAnswerResume("A")
    \/ \E x \in 1..MaxPc : OnDataChannel("B", x)
    \/ \E n \in {"A", "B"}, d \in 1..MaxDc : DcOpen(n, d)
    \/ \E n \in {"A", "B"} : KeyExchangeTimer(n)
    \/ \E n \in {"A", "B"} : PerformKeyExchangeResume(n)
    \/ \E n \in {"A", "B"}, d \in 1..MaxDc : DcReceive(n, d)
    \/ \E n \in {"A", "B"} : HandleKeyExchangeDerived(n)
    \/ \E n \in {"A", "B"} : HandleKeyExchangeReply(n)

SpecPair == InitPair /\ [][NextPair]_vars

\* SpecPairFair: SpecPair with the event loop running whatever is ready:
\* continuations, timers, envelopes and frames in flight.
SpecPairFair == SpecPair /\ WF_vars(NextPair)

\* SpecRekey: two nodes and two sessions in a row.  A initiates the first;
\* once both ends hold the key and nothing is pending, B leaves it with
\* disconnectFromPeer, which closes A's end of the channel but runs no
\* teardown at A, and then B initiates the second.
NextRekey ==
    \/ \E n \in {"A", "B"} : Connect(n)
    \/ \E n \in {"A", "B"} : SocketOpen(n)
    \/ pcs["A"] = <<>> /\ ConnectToPeer("A", "B")
    \/ /\ Len(pcs["B"]) = 1 /\ peerConnections["B"]["A"] # None
       /\ sharedKeys["A"]["B"] # NoKey /\ sharedKeys["B"]["A"] # NoKey
       /\ tasks["A"] = {} /\ tasks["B"] = {}
       /\ DisconnectFromPeer("B", "A")
    \/ /\ Len(pcs["B"]) = 1 /\ peerConnections["B"]["A"] = None
       /\ ConnectToPeer("B", "A")
    \/ \E n \in {"A", "B"} : ConnectToPeerResume(n)
    \/ \E n \in {"A", "B"} : RelayOffer(n)
    \/ \E n \in {"A", "B"} : HandleOfferSetRemoteResume(n)
    \/ \E n \in {"A", "B"} : HandleOfferAnswerResume(n)
    \/ \E n \in {"A", "B"} : RelayAnswer(n)
    \/ \E n \in {"A", "B"} : HandleAnswerResume(n)
    \/ \E n \in {"A", "B"}, x \in 1..MaxPc : OnDataChannel(n, x)
    \/ \E n \in {"A", "B"}, d \in 1..MaxDc : DcOpen(n, d)
    \/ \E n \in {"A", "B"}, d \in 1..MaxDc : DcClose(n, d)
    \/ \E n \in {"A", "B"} : KeyExchangeTimer(n)
    \/ \E n \in {"A", "B"} : PerformKeyExchangeResume(n)
    \/ \E n \in {"A", "B"}, d \in 1..MaxDc : DcReceive(n, d)
    \/ \E n \in {"A", "B"} : HandleKeyExchangeDerived(n)
    \/ \E n \in {"A", "B"} : HandleKeyExchangeReply(n)

SpecRekey == InitPair /\ [][NextRekey]_vars

\* SpecRekeyFair: SpecRekey with the event loop running whatever is ready.
SpecRekeyFair == SpecRekey /\ WF_vars(NextRekey)

\* SpecRestart: two nodes and two sessions in a row, both initiated by A.
\* Between them, with the first channel open, A's provider runs its effect
\* again: the first manager is disconnected and a new one starts with a
\* fresh key pair.  B learns of it
\* by the close of its channel and, while it still has the first handle,
\* possibly by a peer_disconnected envelope.
NextRestart ==
    \/ \E n \in {"A", "B"} : Connect(n)
    \/ \E n \in {"A", "B"} : SocketOpen(n)
    \/ /\ peerConnections["A"]["B"] = None
       /\ pcs["A"] = <<>> \/ (Len(pcs["A"]) = 1 /\ keyPair["A"] = FreshKey)
       /\ ConnectToPeer("A", "B")
    \/ /\ dataChannels["A"]["B"] # None /\ IsOpen(St("A"), dataChannels["A"]["B"])
       /\ Restart("A")
    \/ /\ keyPair["A"] = FreshKey /\ peerConnections["B"]["A"] = 1
       /\ PeerDisconnectedEnvelope("B", "A")
    \/ ConnectToPeerResume("A")
    \/ RelayOffer("B")
    \/ HandleOfferSetRemoteResume("B")
    \/ HandleOfferAnswerResume("B")
    \/ RelayAnswer("A")
    \/ HandleAnswerResume("A")
    \/ \E x \in 1..MaxPc : OnDataChannel("B", x)
    \/ \E n \in {"A", "B"}, d \in 1..MaxDc : DcOpen(n, d)
    \/ \E d \in 1..MaxDc : DcClose("B", d)
    \/ \E n \in {"A", "B"} : KeyExchangeTimer(n)
    \/ \E n \in {"A", "B"} : PerformKeyExchangeResume(n)
    \/ \E n \in {"A", "B"}, d \in 1..MaxDc : DcReceive(n, d)
    \/ \E n \in {"A", "B"} : HandleKeyExchangeDerived(n)
    \/ \E n \in {"A", "B"} : HandleKeyExchangeReply(n)

SpecRestart == InitPair /\ [][NextRestart]_vars

\* SpecGlare: two nodes that may each initiate towards the other before the
\* other's offer arrives; the relay delivers every envelope, in order.
NextGlare ==
    \/ \E n \in {"A", "B"} : Connect(n)
    \/ \E n \in {"A", "B"} : SocketOpen(n)
    \/ pcs["A"] = <<>> /\ ConnectToPeer("A", "B")
    \/ pcs["B"] = <<>> /\ ConnectToPeer("B", "A")
    \/ \E n \in {"A", "B"} : ConnectToPeerResume(n)
    \/ \E n \in {"A", "B"} : RelayOffer(n)
    \/ \E n \in {"A", "B"} : HandleOfferSetRemoteResume(n)
    \/ \E n \in {"A", "B"} : HandleOfferAnswerResume(n)
    \/ \E n \in {"A", "B"} : RelayAnswer(n)
    \/ \E n \in {"A", "B"} : HandleAnswerResume(n)
    \/ \E n \in {"A", "B"}, x \in 1..MaxPc : OnDataChannel(n, x)
    \/ \E n \in {"A", "B"}, d \in 1..MaxDc : DcOpen(n, d)
    \/ \E n \in {"A", "B"} : KeyExchangeTimer(n)
    \/ \E n \in {"A", "B"} : PerformKeyExchangeResume(n)
    \/ \E n \in {"A", "B"}, d \in 1..MaxDc : DcReceive(n, d)
    \/ \E n \in {"A", "B"} : HandleKeyExchangeDerived(n)
    \/ \E n \in {"A", "B"} : HandleKeyExchangeReply(n)

SpecGlare == InitPair /\ [][NextGlare]_vars

\* SpecGlareFair: SpecGlare with the event loop running whatever is ready.
SpecGlareFair == SpecGlare /\ WF_vars(NextGlare)

\* SpecPairChat: two nodes, one session between them, and A's user sending to
\* B once both ends hold the key.
NextPairChat ==
    \/ \E n \in {"A", "B"} : Connect(n)
    \/ \E n \in {"A", "B"} : SocketOpen(n)
    \/ ~peers["A"]["B"].present /\ PeerDiscovered("A", "B")
    \/ pcs["A"] = <<>> /\ SelectPeer("A", "B")
    \/ ConnectToPeerResume("A")
    \/ RelayOffer("B")
    \/ HandleOfferSetRemoteResume("B")
    \/ HandleOfferAnswerResume("B")
    \/ RelayAnswer("A")
    \/ HandleAnswerResume("A")
    \/ \E x \in 1..MaxPc : OnDataChannel("B", x)
    \/ \E n \in {"A", "B"}, d \in 1..MaxDc : DcOpen(n, d)
    \/ \E n \in {"A", "B"} : KeyExchangeTimer(n)
    \/ \E n \in {"A", "B"} : PerformKeyExchangeResume(n)
    \/ \E n \in {"A", "B"}, d \in 1..MaxDc : DcReceive(n, d)
    \/ \E n \in {"A", "B"} : HandleKeyExchangeDerived(n)
    \/ \E n \in {"A", "B"} : HandleKeyExchangeReply(n)
    \/ sharedKeys["A"]["B"] # NoKey /\ sharedKeys["B"]["A"] # NoKey /\ SendMessage("A")
    \/ SendMessageResume("A")
    \/ HandleEncryptedMessageResume("B")

SpecPairChat == InitPair /\ [][NextPairChat]_vars

\* SpecCodec: the encryption services of two nodes called directly with
\* public keys, payloads and nonces from bounded sets.  A caller awaits
\* establishSharedKey before it calls it again.
NextCodec ==
    \/ \E n \in {"A", "B"} : tasks[n] = {} /\ EstablishSharedKey(n, CodecPeer(n))
    \/ \E n \in {"A", "B"} : EstablishSharedKeyDerived(n)
    \/ \E n \in {"A", "B"} : RemoveSharedKey(n, CodecPeer(n))
    \/ \E n \in {"A", "B"} : RotateKey(n, CodecPeer(n))
    \/ \E n \in {"A", "B"} : Encrypt(n, CodecPeer(n))
    \/ \E n \in {"A", "B"} : Decrypt(n, CodecPeer(n))

SpecCodec == InitPair /\ [][NextCodec]_vars

\* ------------------------------------------------------------------- claims
Emitted(name, peerId) ==
    \E i \in DOMAIN out.events : out.events[i].name = name /\ out.events[i].peer = peerId

\* Peer p is in none of the five tracking structures of node n.
Absent(n, p) ==
    /\ peerConnections[n][p] = None
    /\ dataChannels[n][p] = None
    /\ pendingIceCandidates[n][p] = NoQueue
    /\ connectionStates[n][p] = "none"
    /\ sharedKeys[n][p] = NoKey

\* C1: a teardown of peer P is one step; in the state it ends in P is in none
\* of the five tracking structures and the peer-disconnected event has been
\* emitted, and no step emits peer-disconnected for P while an entry of P
\* is left.
C1_TeardownAtomic ==
    /\ \A p \in Nodes : Emitted("peer-disconnected", p) => Absent(out.n, p)
    /\ out.op = "handlePeerDisconnected" =>
          Emitted("peer-disconnected", out.p) /\ Absent(out.n, out.p)

\* A teardown that found a handle, a channel, a queue under flush and a key.
C1_Witness ==
    /\ out.op = "handlePeerDisconnected" /\ out.p = "B"
    /\ Emitted("peer-disconnected", "B")
    /\ \E x \in DOMAIN pcs["A"] : pcs["A"][x].closed
    /\ \E d \in DOMAIN dcs["A"] : dcs["A"][d].state = "closed"
    /\ \E t \in tasks["A"] : t.stale /\ t.kind = "handleKeyExchange.reply"
    /\ \E t \in tasks["A"] : t.stale /\ t.kind = "flush" /\ t.idx < Len(t.cands)

\* C2: in every reachable state the fields of a peer's session exist
\* together: a peer without a negotiation handle has no data-channel entry,
\* no pending-candidate queue, no connection-state entry and no shared key.
C2_SessionFieldsTogether ==
    \A n \in live : \A p \in Nodes :
        peerConnections[n][p] = None =>
            /\ dataChannels[n][p] = None
            /\ pendingIceCandidates[n][p] = NoQueue
            /\ connectionStates[n][p] = "none"
            /\ sharedKeys[n][p] = NoKey

\* The state manager disconnect() ends in when a key was stored: no handle,
\* channel, queue or connection state is left, the key is.
C2_KeyOutlivesDisconnect ==
    /\ out.op = "disconnect"
    /\ \A p \in Nodes : peerConnections["A"][p] = None /\ dataChannels["A"][p] = None
    /\ sharedKeys["A"]["B"] # NoKey
    /\ \A t \in tasks["A"] : ~t.stale

\* The candidates of applied that are among those of early, in applied's order.
AppliedOf(h) ==
    LET IsEarly(c) == \E i \in DOMAIN h.early : h.early[i] = c
    IN  SelectSeq(h.applied, IsEarly)

\* C3: once the remote description of a peer's negotiation handle is applied
\* and the node has no continuation left to run, every candidate that
\* arrived for the handle before the description has been applied to it, in
\* arrival order, none dropped or reordered.
C3_EarlyCandidatesApplied ==
    \A n \in live : \A p \in Nodes :
        LET x == peerConnections[n][p]
        IN  (x # None /\ tasks[n] = {}) =>
                ((~pcs[n][x].closed /\ pcs[n][x].remote) =>
                    AppliedOf(pcs[n][x]) = pcs[n][x].early)

\* Both ends sent their first key_exchange frame before the other's arrived.
Crossed ==
    \A n \in {"A", "B"} :
        counts[n].kxSent > counts[n].kxReplies /\ ~counts[n].recvFirst

\* Nothing is left to run: no continuation, no timer, no frame in flight.
Quiet ==
    \A n \in {"A", "B"} :
        /\ tasks[n] = {}
        /\ \A d \in DOMAIN dcs[n] : dcs[n][d].inbox = <<>>

OneKeyEach ==
    /\ sharedKeys["A"]["B"] = DeriveKey(keyPair["A"], keyPair["B"])
    /\ sharedKeys["B"]["A"] = sharedKeys["A"]["B"]
    /\ \A n \in {"A", "B"} : \A p \in Nodes \ {"A", "B"} : sharedKeys[n][p] = NoKey

\* C4: after a crossed key exchange has run to its end, each side holds one
\* key for the other (the same key), has emitted "encryption established"
\* twice (on storing the key and on receiving the other's reply), has sent
\* its first frame and one reply, and nothing more is sent.
C4_CrossedExchangeConverges ==
    (Crossed /\ Quiet) =>
        /\ OneKeyEach
        /\ \A n \in {"A", "B"} :
             /\ counts[n].established = 2
             /\ counts[n].kxSent = 2
             /\ counts[n].kxReplies = 1

C4_Witness ==
    /\ Crossed /\ Quiet /\ OneKeyEach
    /\ \A n \in {"A", "B"} : counts[n].established = 2 /\ counts[n].kxReplies = 1

\* C4 as stated: exactly one "encryption established" event per side.
C4_OneEventPerSide ==
    (Crossed /\ Quiet) =>
        /\ OneKeyEach
        /\ \A n \in {"A", "B"} : counts[n].established = 1
        /\ \A n \in {"A", "B"} : counts[n].kxSent <= 2

\* C5: a step that resumes a continuation of a peer that was torn down while
\* the continuation was suspended changes no tracking structure and no
\* stored key, sends no frame and no envelope and emits no event.
C5_StaleContinuationNoOp ==
    [][\A n \in live : \A t \in tasks[n] :
          (t.stale /\ t \notin tasks'[n]) =>
              /\ peerConnections'[n] = peerConnections[n]
              /\ dataChannels'[n] = dataChannels[n]
              /\ pendingIceCandidates'[n] = pendingIceCandidates[n]
              /\ connectionStates'[n] = connectionStates[n]
              /\ sharedKeys'[n] = sharedKeys[n]
              /\ out'.frames = <<>> /\ out'.signals = <<>> /\ out'.events = <<>>]_vars

\* A torn-down peer's key exchange resumed: the key is stored and announced
\* for a peer that has no handle and no channel.
C5_KeyStoredAfterTeardown ==
    /\ Emitted("encryption-established", "B")
    /\ sharedKeys["A"]["B"] # NoKey
    /\ peerConnections["A"]["B"] = None /\ dataChannels["A"]["B"] = None
    /\ signalingSocket["A"] = "open"

\* C6: establishSharedKey for a peer that has a key returns without error,
\* starts no derivation and leaves every stored key as it was, whatever
\* public key it is given.
C6_EstablishTwiceNoOp ==
    [][(out'.op = "establishSharedKey" /\ hasSharedKey(sharedKeys[out'.n], out'.p)) =>
          /\ out'.res = "returned"
          /\ sharedKeys' = sharedKeys
          /\ tasks' = tasks]_vars

C6_Witness ==
    /\ out.op = "establishSharedKey" /\ out.res = "returned"
    /\ out.n = "A" /\ sharedKeys["A"]["B"] = DeriveKey(keyPair["A"], keyPair["C"])

\* C7: decrypt of what encrypt returned, under the key encrypt used, returns
\* the payload; so does the decrypt by the other node when both keys were
\* derived from each other's public keys.
C7_RoundTrip ==
    [][(out'.op = "decrypt" /\ box.ok) =>
          LET n == out'.n
              p == out'.p
              same  == n = box.by /\ p = box.for /\ sharedKeys[n][p] = box.key
              cross == /\ n = box.for /\ p = box.by
                       /\ box.key = DeriveKey(keyPair[p], ImportKey(ExportKey(keyPair[n])))
                       /\ sharedKeys[n][p] = DeriveKey(keyPair[n], ImportKey(ExportKey(keyPair[p])))
          IN  (same \/ cross) => (box'.opened /\ box'.plaintext = box.m)]_vars

\* B opened what A encrypted for it: two bytes under a non-zero nonce.
C7_Witness ==
    /\ out.op = "decrypt" /\ box.by = "A" /\ box.reader = "B" /\ box.from = "A"
    /\ box.m = <<1, 255>> /\ box.iv = 1
    /\ box.opened /\ box.plaintext = box.m

\* The step resumes continuation t of node n in the call named op.
Resumes(n, t, op) == out'.op = op /\ out'.n = n /\ t \notin tasks'[n]

\* The bytes are an AES-GCM output under key k and nonce iv.
EncryptedUnder(ct, iv, k) == k # NoKey /\ AesGcmVerifies(k, iv, ct)
AesKeys == {DeriveKey(a, b) : a, b \in PrivateKeys}

\* The inbound encrypted_message of continuation t was encrypted under a key
\* other than the one decrypt read for the peer.
WrongKey(t) ==
    /\ t.kind = "handleEncryptedMessage"
    /\ \E k \in AesKeys : k # t.key /\ EncryptedUnder(t.bytes, t.idx, k)

\* C8: an inbound encrypted_message encrypted under another key than the
\* stored one ends in a decryption error: no message event, no log entry,
\* and the key, the channel, the handle and the rest of the session are as
\* before; a message under the stored key is delivered whatever failed before.
C8_WrongKeyNotDelivered ==
    [][\A n \in live : \A t \in tasks[n] :
          /\ (WrongKey(t) /\ Resumes(n, t, "handleEncryptedMessage.resume")) =>
                /\ out'.res = "DecryptionError"
                /\ out'.events = <<>> /\ out'.frames = <<>>
                /\ messages' = messages
                /\ sharedKeys' = sharedKeys
                /\ dataChannels' = dataChannels
                /\ peerConnections' = peerConnections
                /\ connectionStates' = connectionStates
                /\ pcs' = pcs /\ dcs' = dcs
                /\ peers' = peers /\ selectedPeer' = selectedPeer
          /\ (Resumes(n, t, "handleEncryptedMessage.resume")
                 /\ EncryptedUnder(t.bytes, t.idx, t.key)) =>
                /\ Len(messages'[n]) = Len(messages[n]) + 1
                /\ \E i \in DOMAIN out'.events : out'.events[i].name = "message"]_vars

\* A wrong-key message was dropped while a message is in the log, and the
\* peer still has its key, its open channel and its handle.
C8_Witness ==
    /\ out.op = "handleEncryptedMessage.resume" /\ out.res = "DecryptionError"
    /\ sharedKeys["A"]["B"] # NoKey
    /\ peerConnections["A"]["B"] # None
    /\ IsOpen(St("A"), dataChannels["A"]["B"])
    /\ \E t \in tasks["A"] : t.kind = "handleEncryptedMessage"
                               /\ EncryptedUnder(t.bytes, t.idx, t.key)

\* C9: encrypt and decrypt for a peer without a stored key fail with the
\* no-key error and change no stored key.
C9_NoKeyError ==
    [][(out'.op \in {"encrypt", "decrypt"} /\ ~hasSharedKey(sharedKeys[out'.n], out'.p)) =>
          /\ out'.res = "NoKeyError"
          /\ sharedKeys' = sharedKeys]_vars

\* A node that encrypted for a peer finds no key for it any more.
C9_Witness ==
    /\ out.op = "decrypt" /\ out.res = "NoKeyError"
    /\ box.ok /\ box.by = out.n /\ box.for = out.p
    /\ sharedKeys[out.n][out.p] = NoKey

\* provider sendMessage is allowed: a peer is selected, its flag is true and
\* its channel is open.
SendAllowed(n) ==
    /\ selectedPeer[n].id # ""
    /\ SelectedEstablished(St(n))
    /\ IsOpen(St(n), dataChannels[n][selectedPeer[n].id])

\* C10: a provider sendMessage call made without a selected peer, with the
\* selected peer's encryptionEstablished not true or without an open channel
\* raises an error to the caller, and no encrypted_message frame is sent
\* for it.
C10_SendRequiresEstablished ==
    [][\A n \in live :
          /\ (out'.op = "sendMessage" /\ out'.n = n /\ ~SendAllowed(n)) => out'.res # ""
          /\ \A t \in tasks[n] :
                (Resumes(n, t, "sendMessage.resume") /\ ~t.flag) =>
                    out'.frames = <<>>]_vars

\* An encrypted_message frame leaves while the selected peer's flag is false
\* in the selected Peer object and in the directory.
C10_FrameSentUnflagged ==
    /\ out.op = "sendMessage.resume" /\ out.n = "A"
    /\ \E i \in DOMAIN out.frames : out.frames[i].msg.type = "encrypted_message"
    /\ selectedPeer["A"].id = "B"
    /\ ~SelectedEstablished(St("A"))

\* The number of entries of log with content c.
LogCount(log, c) ==
    LET Is(e) == e.content = c
    IN  Len(SelectSeq(log, Is))

\* The content an encrypted_message frame carries for a reader with key k.
FrameContent(ct, iv, k) == ParsedContent(AesGcmOpen(k, iv, ct))

\* The messages with content c on their way from A's log to B's: encrypt
\* pending at A, frame in flight, decrypt pending at B.
OnTheWay(c) ==
    LET k == sharedKeys["B"]["A"]
        Carries(f) == f.type = "encrypted_message" /\ FrameContent(f.ciphertext, f.iv, k) = c
    IN  Cardinality({t \in tasks["A"] : t.kind = "sendMessage"
                                        /\ FrameContent(t.bytes, t.idx, k) = c})
        + Sum([d \in DOMAIN dcs["B"] |-> Len(SelectSeq(dcs["B"][d].inbox, Carries))])
        + Cardinality({t \in tasks["B"] : t.kind = "handleEncryptedMessage"
                                          /\ FrameContent(t.bytes, t.idx, t.key) = c})

\* C11: every message A's user sent to B while both held the key is one
\* entry of A's log with isOwn = true and is exactly one of: on its way to B,
\* or one entry of B's log with sender A, that content, encrypted = true and
\* isOwn = false; B's log holds nothing else, so nothing is delivered twice
\* and nothing is lost.
C11_DeliveredOnce ==
    /\ \A i \in DOMAIN messages["A"] :
          messages["A"][i].isOwn /\ messages["A"][i].sender = "A"
    /\ \A i \in DOMAIN messages["B"] :
          /\ messages["B"][i].sender = "A" /\ messages["B"][i].encrypted
          /\ ~messages["B"][i].isOwn
    /\ \A c \in Contents :
          LogCount(messages["A"], c) = LogCount(messages["B"], c) + OnTheWay(c)

\* Two messages with different contents arrived; nothing is on its way.
C11_Witness ==
    /\ Len(messages["A"]) = 2 /\ Len(messages["B"]) = 2
    /\ LogCount(messages["B"], 0) = 1 /\ LogCount(messages["B"], 1) = 1
    /\ \A c \in Contents : OnTheWay(c) = 0

\* C12: every selectPeer call and every disconnectPeer call for the selected
\* peer ends with an empty message log and the typing state false, whatever
\* the log held before.
C12_SelectionChangeClears ==
    [][\A n \in live :
          (out'.n = n /\ (\/ out'.op = "selectPeer"
                          \/ out'.res = "disconnectPeer" /\ selectedPeer[n].id = out'.p)) =>
              (messages'[n] = <<>> /\ isTyping'[n] = FALSE)]_vars

\* disconnectPeer of the selected peer ended with the typing state still true.
C12_TypingSurvivesDisconnect ==
    /\ out.res = "disconnectPeer" /\ out.n = "A"
    /\ selectedPeer["A"] = NoSelection /\ messages["A"] = <<>>
    /\ isTyping["A"]

\* The session of peer q at node n: its entries in the four maps, its key,
\* its platform objects and its directory entry.
SessionOf(n, q) ==
    [pc |-> peerConnections[n][q], dc |-> dataChannels[n][q],
     queue |-> pendingIceCandidates[n][q], state |-> connectionStates[n][q],
     key |-> sharedKeys[n][q], entry |-> peers[n][q],
     handle |-> IF peerConnections[n][q] = None THEN None ELSE pcs[n][peerConnections[n][q]],
     channel |-> IF dataChannels[n][q] = None THEN None ELSE dcs[n][dataChannels[n][q]]]

\* C13: a selectPeer(B) call, and the continuation of the connectToPeer(B) it
\* started, leave the session of every other peer as it was: handle, channel,
\* candidate queue, connection state, key and directory entry.
C13_SelectLeavesOthers ==
    [][\A n \in live : \A p \in Nodes :
          (out'.op \in {"selectPeer", "connectToPeer.resume"} /\ out'.n = n /\ out'.p = p) =>
              \A q \in Nodes \ {p} : SessionOf(n, q)' = SessionOf(n, q)]_vars

\* selectPeer(B) created a handle for B while C had a handle, an open channel,
\* a connection state, a key and a directory entry.
C13_Witness ==
    /\ out.op = "selectPeer" /\ out.p = "B" /\ out.n = "A"
    /\ peerConnections["A"]["B"] # None /\ peerConnections["A"]["C"] # None
    /\ IsOpen(St("A"), dataChannels["A"]["C"])
    /\ peers["A"]["C"].present
    /\ sharedKeys["A"]["C"] # NoKey
    /\ connectionStates["A"]["C"] = "connected"

\* C14: a connectToPeer(P) call made while P's channel is open creates no
\* handle and no channel, starts no continuation (so no offer is sent) and
\* changes no entry of P in the maps and no stored key.
C14_ConnectIdempotent ==
    [][\A n \in live : \A p \in Nodes :
          (out'.op = "connectToPeer" /\ out'.n = n /\ out'.p = p
             /\ IsOpen(St(n), dataChannels[n][p])) =>
              /\ pcs'[n] = pcs[n] /\ dcs'[n] = dcs[n]
              /\ tasks'[n] = tasks[n] /\ out'.signals = <<>>
              /\ peerConnections'[n] = peerConnections[n]
              /\ dataChannels'[n] = dataChannels[n]
              /\ connectionStates'[n] = connectionStates[n]
              /\ sharedKeys'[n] = sharedKeys[n]]_vars

\* connectToPeer replaced a handle that had been 'connected', was
\* 'disconnected' at the call and carries an open channel: the old handle is
\* out of the map and still open.
C14_SessionReplaced ==
    /\ out.op = "connectToPeer" /\ out.n = "A" /\ out.p = "B"
    /\ \E x \in DOMAIN pcs["A"], d \in DOMAIN dcs["A"] :
          /\ peerConnections["A"]["B"] # x
          /\ ~pcs["A"][x].closed /\ pcs["A"][x].conn = "disconnected"
          /\ dcs["A"][d].pc = x /\ dcs["A"][d].state = "open"
    /\ \E t \in tasks["A"] : t.kind = "connectToPeer" /\ t.pc = peerConnections["A"]["B"]

\* C15: the step that handles the loss of the relay connection sets the
\* status to 'disconnected' and changes nothing else: every session (handle,
\* channel, queue, connection state, key, platform objects, continuations)
\* and the directory are as before, no event is emitted, nothing is sent,
\* and no later step opens a socket again.
C15_RelayLossKeepsSessions ==
    [][\A n \in live :
          /\ (out'.op = "onclose.socket" /\ out'.n = n) =>
                /\ connectionStatus'[n] = "disconnected"
                /\ peerConnections' = peerConnections /\ dataChannels' = dataChannels
                /\ pendingIceCandidates' = pendingIceCandidates
                /\ connectionStates' = connectionStates
                /\ sharedKeys' = sharedKeys
                /\ pcs' = pcs /\ dcs' = dcs /\ tasks' = tasks
                /\ peers' = peers /\ selectedPeer' = selectedPeer /\ messages' = messages
                /\ out'.events = <<>> /\ out'.signals = <<>> /\ out'.frames = <<>>
          /\ signalingSocket[n] = "closed" => signalingSocket'[n] = "closed"]_vars

\* The relay connection was lost while B's session had a handle in state
\* 'connected', an open channel, a key and a directory entry.
C15_Witness ==
    /\ out.op = "onclose.socket" /\ out.n = "A"
    /\ connectionStatus["A"] = "disconnected"
    /\ peerConnections["A"]["B"] # None
    /\ connectionStates["A"]["B"] = "connected"
    /\ IsOpen(St("A"), dataChannels["A"]["B"])
    /\ sharedKeys["A"]["B"] # NoKey
    /\ peers["A"]["B"].present

\* C16: every step that tears a peer down, by disconnectPeer or because its
\* negotiation failed, ends with no entry for that peer in the directory.
C16_EntryRemoved ==
    \A n \in live : \A p \in Nodes :
        (out.n = n /\ Emitted("peer-disconnected", p)) => ~peers[n][p].present

\* The handle's connection state became 'failed', the peer was torn down and
\* its directory entry is still there, offline.
C16_EntryKeptAfterFailure ==
    /\ out.op = "handlePeerDisconnected" /\ out.res = "failed" /\ out.n = "A" /\ out.p = "B"
    /\ Emitted("peer-disconnected", "B")
    /\ Absent("A", "B")
    /\ peers["A"]["B"].present /\ ~peers["A"]["B"].online

\* Continuation t of node n is run by the step.
Runs(n, t) == t \in tasks[n] /\ \A u \in tasks'[n] : u.id = t.id => u.kind # t.kind

KxFrames(frames) ==
    LET IsKx(f) == f.msg.type = "key_exchange"
    IN  SelectSeq(frames, IsKx)

\* C17: a received key_exchange frame marked isResponse causes no
\* key_exchange frame and no reply to be prepared; a reply is prepared only
\* by the handling of one frame that is not marked, once; over one channel
\* each side sends at most two key_exchange frames, at most one of them a
\* reply, and the exchange comes to rest.
C17_ReplyOnceThenQuiet ==
    /\ [][\A n \in live :
            /\ \A t \in tasks[n] :
                  (t.kind = "handleKeyExchange.derive" /\ t.flag /\ Runs(n, t)) =>
                      /\ out'.frames = <<>>
                      /\ \A u \in tasks'[n] : u.kind = "handleKeyExchange.reply" => u \in tasks[n]
            /\ \A u \in tasks'[n] \ tasks[n] :
                  u.kind = "handleKeyExchange.reply" =>
                      /\ \E t \in tasks[n] : /\ t.kind = "handleKeyExchange.derive"
                                             /\ ~t.flag /\ Runs(n, t)
                      /\ Cardinality({v \in tasks'[n] \ tasks[n] :
                                         v.kind = "handleKeyExchange.reply"}) = 1
            /\ out'.n = n =>
                  /\ Len(KxFrames(out'.frames)) <= 1
                  /\ \A i \in DOMAIN out'.frames :
                        (out'.frames[i].msg.type = "key_exchange"
                           /\ out'.frames[i].msg.isResponse) =>
                            \E t \in tasks[n] : t.kind = "handleKeyExchange.reply" /\ Runs(n, t)
            /\ counts'[n].kxSent <= 2 /\ counts'[n].kxReplies <= 1]_vars
    /\ <>[]Quiet

\* A reply to a reply-less first frame arrived and was handled: the receiver
\* stored the key, sent nothing, and nothing is left to run.
C17_Witness ==
    /\ Quiet /\ OneKeyEach
    /\ counts["A"].kxSent = 1 /\ counts["A"].kxReplies = 0
    /\ counts["B"].kxSent = 1 /\ counts["B"].kxReplies = 1
    /\ out.n = "A" /\ out.frames = <<>> /\ Emitted("encryption-established", "B")

\* The candidates are numbered in the order they arrive.
InArrivalOrder(applied) ==
    \A i, j \in DOMAIN applied : i < j => applied[i] < applied[j]

\* C18: on every handle the candidates handed to addIceCandidate are in the
\* order they arrived, those that arrive during the flush of the queue
\* included, and none is handed over before the remote description is set.
C18_CandidatesInArrivalOrder ==
    \A n \in live : \A x \in DOMAIN pcs[n] :
        /\ InArrivalOrder(pcs[n][x].applied)
        /\ pcs[n][x].applied # <<>> => pcs[n][x].remote

\* A candidate that arrived during the flush was applied before a queued one.
C18_AppliedOutOfOrder ==
    \E x \in DOMAIN pcs["A"] :
        /\ peerConnections["A"]["B"] = x
        /\ pcs["A"][x].early = <<1, 2>>
        /\ pcs["A"][x].applied = <<1, 3, 2>>

\* The timer the next iceGraceTimer step of n fires: the oldest one.
OldestGraceTimer(n, t) ==
    /\ t \in GraceTimers(St(n))
    /\ \A u \in GraceTimers(St(n)) : t.idx <= u.idx

\* The handle of t stayed 'disconnected' from the arming of t until now.
Sustained(n, t) == ~t.flag /\ pcs[n][t.pc].ice = "disconnected"

\* C19: the grace timer tears the peer's session down only if the
\* 'disconnected' condition it was armed for lasted the whole grace period
\* without interruption, and always if it did; a link that recovered and
\* became 'disconnected' again since then is not torn down.
C19_TeardownOnlyIfSustained ==
    [][\A n \in live : \A t \in tasks[n] :
          (OldestGraceTimer(n, t) /\ out'.n = n /\ out'.op = "iceGraceTimer")
              => (out'.res = "teardown" <=> Sustained(n, t))]_vars

\* The only handle was closed by a grace timer while the timer of its latest
\* 'disconnected' episode was still running.
C19_TornDownAfterRecovery ==
    /\ out.n = "A" /\ out.op = "iceGraceTimer" /\ out.res = "teardown"
    /\ Len(pcs["A"]) = 1 /\ pcs["A"][1].closed
    /\ \E t \in GraceTimers(St("A")) : t.pc = 1 /\ ~t.flag

\* C20: the first link failure of a session makes one ICE-restart attempt
\* and is not yet terminal: the step that handles it neither closes the
\* session's handle nor emits peer-disconnected; only a failure after that
\* attempt ends in teardown.
C20_RestartBeforeTerminal ==
    [][\A n \in live : \A x \in DOMAIN pcs[n] : \A p \in Nodes :
          (/\ out'.n = n /\ out'.op = "oniceconnectionstatechange" /\ out'.res = "failed"
           /\ pcs[n][x].peer = p
           /\ ~pcs[n][x].restarted /\ pcs'[n][x].restarted)
              => /\ ~pcs'[n][x].closed
                 /\ ~Emitted("peer-disconnected", p)']_vars

\* The first link failure of the only session closed it in the step that
\* called restartIce().
C20_TerminalOnFirstFailure ==
    /\ out.n = "A" /\ out.op = "oniceconnectionstatechange" /\ out.res = "failed"
    /\ Emitted("peer-disconnected", "B")
    /\ Len(pcs["A"]) = 1 /\ pcs["A"][1].closed /\ pcs["A"][1].restarted
    /\ peerConnections["A"]["B"] = None

\* The call that resumes a continuation of the given kind.
ResumeOp(kind) ==
    CASE kind = "connectToPeer" -> "connectToPeer.resume"
      [] kind \in {"handleOffer.setRemote", "handleOffer.answer"} -> "handleOffer.resume"
      [] kind = "handleAnswer.setRemote" -> "handleAnswer.resume"
      [] kind = "flush" -> "flush.resume"
      [] OTHER -> ""

\* The step of node n runs into a failure while it initiates towards p or
\* processes p's offer, answer or candidate.
NegotiationFails(n, p) ==
    \/ \E t \in tasks[n] :
          /\ t.peer = p /\ Resumes(n, t, ResumeOp(t.kind))
          /\ \/ NegotiationRejects(St(n), t)
             \/ /\ t.kind = "flush" /\ t.idx < Len(t.cands)
                /\ AddIceCandidateRejects(St(n), t.pc, t.cands[t.idx + 1])
    \/ out'.op = "handleIceCandidate" /\ out'.n = n /\ out'.p = p /\ out'.res = "rejected"

\* C21: a step in which the initiation towards P or the processing of P's
\* offer, answer or candidate fails ends with P torn down (P in no tracking
\* structure, no key) and has emitted peer-disconnected for P.
C21_FailureTearsDown ==
    [][\A n \in live : \A p \in Nodes :
          NegotiationFails(n, p) =>
              /\ Absent(n, p)' /\ sharedKeys'[n][p] = NoKey
              /\ Emitted("peer-disconnected", p)']_vars

\* A candidate of B was rejected and B's negotiated session is as it was.
C21_CandidateFailureIgnored ==
    /\ out.n = "A" /\ out.op = "handleIceCandidate" /\ out.p = "B" /\ out.res = "rejected"
    /\ out.events = <<>>
    /\ peerConnections["A"]["B"] # None
    /\ ~pcs["A"][peerConnections["A"]["B"]].closed
    /\ pcs["A"][peerConnections["A"]["B"]].remote

\* The step runs continuation t of node n to its end or to its next await.
Consumed(n, t) ==
    /\ t \in tasks[n]
    /\ ~\E u \in tasks'[n] : u.id = t.id /\ u.kind = t.kind

\* C22: a step that stores a shared key for a peer (sharedKeys.set at the end
\* of establishSharedKey) finds no key stored for that peer: a stored key is
\* replaced only after it was removed, also when several key_exchange frames
\* of the peer are being handled at the same time.
C22_KeyNeverOverwritten ==
    [][\A n \in live : \A t \in tasks[n] :
          (/\ t.kind \in {"handleKeyExchange.derive", "establishSharedKey"}
           /\ Consumed(n, t) /\ ImportKeyOk(t.bytes))
              => sharedKeys[n][t.peer] = NoKey]_vars

\* A has stored a key for B while another establishSharedKey call for B is
\* past its check and will store its key when it resumes.
C22_SecondWritePending ==
    /\ sharedKeys["A"]["B"] # NoKey
    /\ \E t \in tasks["A"] :
          /\ t.kind = "handleKeyExchange.derive" /\ t.peer = "B" /\ ~t.stale
          /\ ImportKeyOk(t.bytes)

\* The isResponse frames of the last step, each with the peer of its channel.
RepliesSent ==
    {dcs[out.n][out.frames[i].dc].peer :
        i \in {j \in DOMAIN out.frames : /\ out.frames[j].msg.type = "key_exchange"
                                         /\ out.frames[j].msg.isResponse}}

\* C23: a step that emits "encryption established" for P ends with a shared
\* key stored for P, and a step that sends the isResponse reply to P has the
\* key for P stored and emits the event after the send.
C23_EstablishedOnlyWithKey ==
    out.n \in live =>
        /\ \A p \in Nodes :
              Emitted("encryption-established", p) => sharedKeys[out.n][p] # NoKey
        /\ \A p \in RepliesSent :
              sharedKeys[out.n][p] # NoKey /\ Emitted("encryption-established", p)

\* A replied to B and emitted the event with no key for B stored.
C23_EstablishedWithoutKey ==
    /\ out.n = "A" /\ "B" \in RepliesSent
    /\ Emitted("encryption-established", "B")
    /\ sharedKeys["A"]["B"] = NoKey
    /\ peerConnections["A"]["B"] = None

\* The step of node n is the key-exchange trigger for p (the timer armed by
\* the channel's open event fires) or the receipt of a key_exchange frame of p.
KeyExchangeTriggered(n, p) ==
    \E t \in tasks[n] : t.kind = "keyExchangeTimer" /\ t.peer = p /\ Consumed(n, t)
KeyExchangeReceived(n, p) ==
    out'.op = "onmessage" /\ out'.n = n /\ out'.p = p /\ out'.res = "key_exchange"

\* The step leaves p's key as it is, sends no key_exchange frame, starts no
\* continuation that would send or store one, and emits the event for p.
SkippedButEmitted(n, p) ==
    /\ sharedKeys'[n][p] = sharedKeys[n][p]
    /\ \A i \in DOMAIN out'.frames : out'.frames[i].msg.type # "key_exchange"
    /\ \A u \in tasks'[n] :
          u.kind \in {"performKeyExchange.send", "handleKeyExchange.derive",
                      "handleKeyExchange.reply"} => u \in tasks[n]
    /\ Emitted("encryption-established", p)'

\* C24 as stated: whenever the trigger fires or a key_exchange frame arrives
\* for a peer that has a shared key, establishment is skipped and the event
\* is emitted.
C24_SkipStillEmits ==
    [][\A n \in live : \A p \in Nodes :
          (sharedKeys[n][p] # NoKey /\ (KeyExchangeTriggered(n, p) \/ KeyExchangeReceived(n, p)))
              => SkippedButEmitted(n, p)]_vars

\* C24 amended: the same, for a trigger that finds the peer's channel open
\* and for every key_exchange frame received; a trigger that finds no open
\* channel for the peer changes nothing and emits nothing.
C24_SkipStillEmitsOnOpenChannel ==
    [][\A n \in live : \A p \in Nodes :
          /\ (/\ sharedKeys[n][p] # NoKey
              /\ \/ KeyExchangeTriggered(n, p) /\ IsOpen(St(n), dataChannels[n][p])
                 \/ KeyExchangeReceived(n, p))
                => SkippedButEmitted(n, p)
          /\ (KeyExchangeTriggered(n, p) /\ ~IsOpen(St(n), dataChannels[n][p]))
                => /\ sharedKeys'[n] = sharedKeys[n]
                   /\ out'.events = <<>> /\ out'.frames = <<>>]_vars

\* A key_exchange frame of B arrived with a key stored: the event, no frame.
C24_Witness ==
    /\ out.n = "A" /\ out.op = "onmessage" /\ out.p = "B" /\ out.res = "key_exchange"
    /\ Emitted("encryption-established", "B")
    /\ out.frames = <<>>
    /\ sharedKeys["A"]["B"] = DeriveKey(NodeCode("A"), NodeCode("B"))
    /\ tasks["A"] = {}

\* The session structures of node n other than its continuations.
SessionUnchanged(n) ==
    /\ peerConnections'[n] = peerConnections[n]
    /\ dataChannels'[n] = dataChannels[n]
    /\ pendingIceCandidates'[n] = pendingIceCandidates[n]
    /\ connectionStates'[n] = connectionStates[n]
    /\ pcs'[n] = pcs[n]
    /\ dcs'[n] = dcs[n]

\* C25: the handling of a key_exchange frame with a malformed public key,
\* received for a peer without a key, stores no key, sends no frame, emits
\* no event and leaves the session as it is, both in the step that receives
\* the frame and in the step in which the import fails; sending to the peer
\* is still refused afterwards.
C25_MalformedKeyIgnored ==
    [][\A n \in live : \A p \in Nodes :
          /\ (/\ KeyExchangeReceived(n, p) /\ sharedKeys[n][p] = NoKey
              /\ \E u \in tasks'[n] \ tasks[n] : ~ImportKeyOk(u.bytes))
                => /\ sharedKeys'[n] = sharedKeys[n]
                   /\ out'.frames = <<>> /\ out'.events = <<>>
                   /\ \A d \in DOMAIN dcs[n] :
                         dcs'[n][d] = dcs[n][d] \/ dcs'[n][d].inbox = Tail(dcs[n][d].inbox)
          /\ (/\ out'.n = n /\ out'.op = "handleKeyExchange.derived" /\ out'.p = p
              /\ out'.res = "DataError")
                => /\ sharedKeys'[n] = sharedKeys[n]
                   /\ out'.frames = <<>> /\ out'.events = <<>>
                   /\ SessionUnchanged(n)
                   /\ tasks'[n] \subseteq tasks[n]
                   /\ sharedKeys[n][p] = NoKey => ManagerSendError(St(n), p)' # ""]_vars

\* The import of B's malformed key failed on an open channel: no key for B.
C25_Witness ==
    /\ out.n = "A" /\ out.op = "handleKeyExchange.derived" /\ out.p = "B"
    /\ out.res = "DataError"
    /\ IsOpen(St("A"), dataChannels["A"]["B"])
    /\ sharedKeys["A"]["B"] = NoKey
    /\ ManagerSendError(St("A"), "B") = "NoKeyError"

\* The channel node n holds for m is open and its far end is the channel m
\* holds for n.
ChannelTo(n, m) ==
    /\ IsOpen(St(n), dataChannels[n][m])
    /\ dataChannels[m][n] # None
    /\ FarDc(n, dataChannels[n][m]) = dataChannels[m][n]

\* Both ends hold an open channel to each other and both triggers fired.
ChannelsOpenAndTriggered ==
    /\ ChannelTo("A", "B") /\ ChannelTo("B", "A")
    /\ \A n \in {"A", "B"} : \A t \in tasks[n] : t.kind # "keyExchangeTimer"

BothKeyed ==
    /\ sharedKeys["A"]["B"] # NoKey /\ sharedKeys["B"]["A"] # NoKey
    /\ \A n \in {"A", "B"} : counts[n].established > 0

\* C26: once both ends hold an open channel to each other and both triggers
\* have fired, both ends come to hold a key for the other and to have emitted
\* "encryption established", also in a second session that one end enters
\* with the key of the first.
C26_BothEndsKeyed == ChannelsOpenAndTriggered ~> BothKeyed

\* The second session at rest: both channels open, nothing pending or in
\* flight, A holds the key of the first session and B holds none.
C26_OneEndNeverKeyed ==
    /\ ChannelsOpenAndTriggered
    /\ Len(pcs["A"]) = 2 /\ Len(pcs["B"]) = 2
    /\ tasks["A"] = {} /\ tasks["B"] = {}
    /\ \A n \in {"A", "B"} : \A d \in DOMAIN dcs[n] : dcs[n][d].inbox = <<>>
    /\ sharedKeys["A"]["B"] # NoKey /\ sharedKeys["B"]["A"] = NoKey

\* An offer of m is with the relay for n.
OfferInFlight(m, n) ==
    \E i \in DOMAIN relay[n] : relay[n][i].type = "offer" /\ relay[n][i].senderId = m

\* Both offers are in flight at the same time.
OffersCrossed == OfferInFlight("A", "B") /\ OfferInFlight("B", "A")

HasOpenChannel(n) == \E d \in DOMAIN dcs[n] : dcs[n][d].state = "open"

\* C27: when the offers of A and B cross in flight, a data channel between
\* them eventually opens on both sides.
C27_GlareResolves == OffersCrossed ~> (HasOpenChannel("A") /\ HasOpenChannel("B"))

\* After the crossing nothing is left to run or to deliver, each node has
\* made two handles, and neither has an open channel.
C27_BothWithoutChannel ==
    /\ \A n \in {"A", "B"} :
          /\ Len(pcs[n]) = 2 /\ pcs[n][1].role = "offerer" /\ pcs[n][2].role = "answerer"
          /\ tasks[n] = {} /\ relay[n] = <<>>
          /\ ~HasOpenChannel(n)
    /\ ~ENABLED NextGlare

\* Handle x of node n is no longer the one stored for its peer.
Replaced(n, x) == peerConnections[n][pcs[n][x].peer] # x

\* This step dispatches an event of a handle or channel of node n that is
\* not the one stored for peer p: a connection state change, the expiry of
\* a grace timer, a channel close, or the key-exchange timer.
StaleEvent(n, p) ==
    /\ out'.n = n
    /\ \/ \E x \in DOMAIN pcs[n] :
             /\ pcs[n][x].peer = p /\ Replaced(n, x)
             /\ ~pcs'[n][x].closed /\ pcs'[n][x].conn # pcs[n][x].conn
       \/ \E t \in tasks[n] :
             /\ t.kind = "iceGraceTimer" /\ t.peer = p /\ Replaced(n, t.pc)
             /\ out'.op = "iceGraceTimer" /\ Consumed(n, t)
       \/ \E d \in DOMAIN dcs[n] :
             /\ dcs[n][d].peer = p /\ dataChannels[n][p] # d
             /\ out'.op = "onclose" /\ dcs'[n][d] # dcs[n][d]
       \/ \E t \in tasks[n] :
             /\ t.kind = "keyExchangeTimer" /\ t.peer = p /\ dataChannels[n][p] # t.dc
             /\ out'.op = "performKeyExchange" /\ Consumed(n, t)

\* The entries node n keeps for peer p, and the handle and channel they name.
TrackingKept(n, p) ==
    /\ peerConnections'[n][p] = peerConnections[n][p]
    /\ dataChannels'[n][p] = dataChannels[n][p]
    /\ pendingIceCandidates'[n][p] = pendingIceCandidates[n][p]
    /\ connectionStates'[n][p] = connectionStates[n][p]
    /\ sharedKeys'[n][p] = sharedKeys[n][p]
    /\ peerConnections[n][p] # None =>
          pcs'[n][peerConnections[n][p]] = pcs[n][peerConnections[n][p]]
    /\ dataChannels[n][p] # None =>
          dcs'[n][dataChannels[n][p]] = dcs[n][dataChannels[n][p]]

\* C28: an event of a handle or channel that is no longer the one stored
\* for its peer changes none of the peer's tracking entries and leaves the
\* stored handle and channel as they are.
C28_StaleEventsHarmless ==
    [][\A n \in live : \A p \in Nodes : StaleEvent(n, p) => TrackingKept(n, p)]_vars

\* The first handle, answered and then replaced by a second connectToPeer,
\* went to 'failed': the second handle was closed and the peer removed.
C28_ReplacedHandleTearsDown ==
    /\ out.n = "A" /\ out.op = "handlePeerDisconnected" /\ out.res = "failed"
    /\ Len(pcs["A"]) = 2
    /\ pcs["A"][1].remote /\ pcs["A"][1].conn = "failed" /\ ~pcs["A"][1].closed
    /\ pcs["A"][2].closed
    /\ peerConnections["A"]["B"] = None

\* The handles of node n for peer p that have not been closed.
Unclosed(n, p) == {x \in DOMAIN pcs[n] : pcs[n][x].peer = p /\ ~pcs[n][x].closed}

\* C29: a node has at most one unclosed handle per peer, and the channel
\* stored for a peer belongs to the handle stored for that peer.
C29_OneUnclosedHandle ==
    \A n \in live : \A p \in Nodes :
        /\ Cardinality(Unclosed(n, p)) <= 1
        /\ dataChannels[n][p] # None => dcs[n][dataChannels[n][p]].pc = peerConnections[n][p]

\* An inbound offer replaced the handle A had made for B: both handles are
\* unclosed and the stored channel is the one of the replaced handle.
C29_ReplacedHandleOpen ==
    /\ Unclosed("A", "B") = {1, 2}
    /\ pcs["A"][1].role = "offerer" /\ pcs["A"][2].role = "answerer"
    /\ peerConnections["A"]["B"] = 2
    /\ dataChannels["A"]["B"] # None
    /\ dcs["A"][dataChannels["A"]["B"]].pc = 1

\* C30: when A holds a key for B and B holds a key for A, the two keys are
\* the same key, the one derived from the key pairs both sides hold now.
C30_KeysAgree ==
    \A n \in live : \A m \in live :
        (n # m /\ sharedKeys[n][m] # NoKey /\ sharedKeys[m][n] # NoKey)
            => /\ sharedKeys[n][m] = sharedKeys[m][n]
               /\ sharedKeys[n][m] = DeriveKey(keyPair[n], keyPair[m])

\* After A's restart both ends hold a key and nothing is pending: A's key
\* is derived from its fresh pair, B's from the pair A had before.
C30_KeysDiffer ==
    /\ keyPair["A"] = FreshKey
    /\ sharedKeys["A"]["B"] = DeriveKey(FreshKey, NodeCode("B"))
    /\ sharedKeys["B"]["A"] = DeriveKey(NodeCode("B"), NodeCode("A"))
    /\ tasks["A"] = {} /\ tasks["B"] = {}

\* C31: a directory entry flagged encryptionEstablished belongs to a peer
\* for which the encryption service holds a key and the manager a session.
C31_FlagImpliesKeyAndSession ==
    \A n \in live : \A p \in Nodes :
        (peers[n][p].present /\ peers[n][p].encryptionEstablished)
            => /\ sharedKeys[n][p] # NoKey
               /\ peerConnections[n][p] # None

\* B's entry is flagged by a key_exchange handler that outlived the
\* teardown of B: B has no session, and nothing is pending.
C31_FlaggedWithoutSession ==
    /\ peers["A"]["B"].present /\ peers["A"]["B"].encryptionEstablished
    /\ peerConnections["A"]["B"] = None /\ dataChannels["A"]["B"] = None
    /\ out.n = "A" /\ out.p = "B"
    /\ out.op \in {"handleKeyExchange.derived", "handleKeyExchange.reply"}
    /\ Emitted("encryption-established", "B")
    /\ tasks["A"] = {}

\* C32: while a peer of the directory is selected, the selected-peer value
\* carries what the peer's directory entry says.
C32_SelectionFollowsDirectory ==
    \A n \in live : \A p \in Nodes :
        (selectedPeer[n].id = p /\ peers[n][p].present)
            => /\ selectedPeer[n].online = peers[n][p].online
               /\ selectedPeer[n].connectionState = peers[n][p].connectionState
               /\ selectedPeer[n].encryptionEstablished = peers[n][p].encryptionEstablished

\* Encryption was established with the selected peer B on an open channel:
\* the directory says so, the selected-peer value does not.
C32_SelectionStale ==
    /\ out.n = "A" /\ Emitted("encryption-established", "B")
    /\ selectedPeer["A"].id = "B"
    /\ peers["A"]["B"].present /\ peers["A"]["B"].encryptionEstablished
    /\ ~selectedPeer["A"].encryptionEstablished
    /\ sharedKeys["A"]["B"] # NoKey
    /\ IsOpen(St("A"), dataChannels["A"]["B"])

\* C33: every received entry of the message log comes from the peer that
\* is selected now.
C33_LogOfSelectedPeer ==
    \A n \in live : \A i \in DOMAIN messages[n] :
        ~messages[n][i].isOwn => messages[n][i].sender = selectedPeer[n].id

\* A message of C was delivered and logged while B is selected.
C33_OtherPeerLogged ==
    /\ out.n = "A" /\ out.op = "handleEncryptedMessage.resume" /\ out.p = "C"
    /\ selectedPeer["A"].id = "B"
    /\ messages["A"] # <<>>
    /\ messages["A"][Len(messages["A"])].sender = "C"
    /\ ~messages["A"][Len(messages["A"])].isOwn

\* C34: a provider sendMessage that fails for want of an open channel or
\* of a key leaves the message log as it was before the call.
C34_FailedSendNotLogged ==
    [][\A n \in live :
          (out'.n = n /\ out'.op = "sendMessage" /\ out'.res # "")
              => messages'[n] = messages[n]]_vars

\* sendMessage to the selected peer B failed for want of a key, and the
\* message is the last entry of the log.
C34_UnsentMessageLogged ==
    /\ out.n = "A" /\ out.op = "sendMessage" /\ out.p = "B" /\ out.res = "NoKeyError"
    /\ out.frames = <<>>
    /\ tasks["A"] = {}
    /\ messages["A"] # <<>>
    /\ messages["A"][Len(messages["A"])].isOwn

\* The peer-disconnected events this step emits for peer p.
Disconnections(p) ==
    {i \in DOMAIN out'.events :
        out'.events[i].name = "peer-disconnected" /\ out'.events[i].peer = p}

\* C35: peer-disconnected is emitted only by a step that finds a session of
\* the peer, and once by that step; as the step removes the session, a
\* session is reported once however many triggers follow.
C35_DisconnectedOncePerSession ==
    [][\A n \in live : \A p \in Nodes :
          (out'.n = n /\ Disconnections(p) # {})
              => /\ peerConnections[n][p] # None
                 /\ Cardinality(Disconnections(p)) = 1]_vars

\* A peer_disconnected envelope for B, with which A never had a session,
\* was reported as a disconnection of B.
C35_DisconnectedWithoutSession ==
    /\ out.n = "A" /\ out.op = "handlePeerDisconnected" /\ out.p = "B"
    /\ Emitted("peer-disconnected", "B")
    /\ pcs["A"] = <<>> /\ dcs["A"] = <<>>
    /\ sharedKeys["A"]["B"] = NoKey

\* This step is node n handling a typing_indicator frame of peer p that may
\* have carried flag b: the handler run on b gives the typing state the
\* step ends with.
TypingReceived(n, p, b) ==
    /\ out'.n = n /\ out'.op = "onmessage" /\ out'.p = p /\ out'.res = "typing_indicator"
    /\ handleDataChannelMessage(St(n), p, TypingFrame(b)).typing = isTyping'[n]

\* C36: a typing_indicator frame of the selected peer sets the typing state
\* to the flag it carries; a frame of any other peer leaves the state as it
\* is.
C36_TypingIsLastFlag ==
    [][\A n \in live : \A p \in Nodes : \A b \in BOOLEAN :
          TypingReceived(n, p, b)
              => IF selectedPeer[n].id = p THEN isTyping'[n] = b
                 ELSE isTyping'[n] = isTyping[n]]_vars

\* A typing frame of the selected peer B was handled by a callback that
\* still sees no selection: the typing state stayed false.
C36_TypingIgnored ==
    /\ out.n = "A" /\ out.op = "onmessage" /\ out.p = "B" /\ out.res = "typing_indicator"
    /\ selectedPeer["A"].id = "B"
    /\ handlerSelectedPeer["A"] = ""
    /\ ~isTyping["A"]

\* The one discovery_pong of node n addressed to node p.
PongTo(n, p) == <<[to |-> p, env |-> Envelope("discovery_pong", n, None, None)]>>

\* C37: a discovery_ping of another node is answered by exactly one
\* discovery_pong addressed to that node, and the node is reported as
\* discovered; the node's own ping does nothing.  A discovery_pong is
\* reported as discovered exactly if it is addressed to this node and comes
\* from another, and is never answered.
C37_DiscoveryReplies ==
    [][\A n \in live : \A p \in Nodes :
          /\ (out'.n = n /\ out'.op = "discovery_ping" /\ out'.p = p)
                => IF p # n
                   THEN /\ out'.signals = PongTo(n, p)
                        /\ out'.events = <<Event("peer-discovered", p)>>
                        /\ peers'[n][p].present /\ peers'[n][p].online
                   ELSE /\ out'.signals = <<>> /\ out'.events = <<>>
                        /\ peers'[n] = peers[n]
          /\ (out'.n = n /\ out'.op = "discovery_pong" /\ out'.p = p)
                => /\ out'.signals = <<>>
                   /\ IF out'.res = n /\ p # n
                      THEN /\ out'.events = <<Event("peer-discovered", p)>>
                           /\ peers'[n][p].present /\ peers'[n][p].online
                      ELSE /\ out'.events = <<>>
                           /\ peers'[n] = peers[n]]_vars

\* B's ping was answered with a pong to B and B is in the directory.
C37_Witness ==
    /\ out.n = "A" /\ out.op = "discovery_ping" /\ out.p = "B"
    /\ out.signals = PongTo("A", "B")
    /\ Emitted("peer-discovered", "B")
    /\ peers["A"]["B"].present /\ peers["A"]["B"].online
    /\ ~peers["A"]["C"].present

\* ---------------------------------------------------------------- C38
\* The microphone streams whose tracks are running.
LiveStreams(M) == {i \in 1..Len(M.streams) : M.streams[i]}

\* C38: startLocalAudio is idempotent if already started: a call made while
\* local audio is started acquires no new stream and leaves the stream and
\* the analyser in place, and whatever startLocalAudio calls were made, at
\* most one capture stream is running.
C38_StartIdempotent ==
    /\ [][(audio'.op = "startLocalAudio" /\ audio.localAudioStream # 0) =>
            /\ audio'.streams = audio.streams
            /\ audio'.pending = audio.pending
            /\ audio'.localAudioStream = audio.localAudioStream
            /\ audio'.localAnalyser = audio.localAnalyser]_vars
    /\ [](Cardinality(LiveStreams(audio)) <= 1)

\* Two startLocalAudio calls overlapped: both streams run, the manager holds
\* the second, and nothing is pending that could stop the first.
C38_TwoStreamsHeld ==
    /\ audio.op = "getUserMedia"
    /\ audio.pending = {}
    /\ audio.localAudioStream = 2
    /\ LiveStreams(audio) = {1, 2}

\* ---------------------------------------------------------------- C39
LevelEmitted(M) == \E i \in 1..Len(M.events) : M.events[i].name = "audio-level"

\* C39: at most one analysis loop is running at any time, however local
\* audio was started, stopped or switched, and once cleanup() has run no
\* loop is scheduled and no audio-level event is emitted any more.
C39_OneLoopNoneAfterCleanup ==
    /\ Cardinality(audio.loops) <= 1
    /\ audio.cleaned => (audio.loops = {} /\ ~LevelEmitted(audio))

\* cleanup() has run, no getUserMedia call resolved after it, and the frame
\* callback of a loop it did not cancel runs.
C39_LoopSurvivesCleanup ==
    /\ audio.cleaned
    /\ audio.op = "analyzeAudio"
    /\ audio.localAudioStream = 0
    /\ audio.pending = {}
    /\ audio.loops # {}

====
